---- MODULE Spec2Model ----
(***************************************************************************)
(* Model of the foot-pressure analysis engine (FootPressureAnalyzer) of    *)
(* footPressureProject_20250729/src/analyzer_engine.py and of its web      *)
(* variant foot_pressure_web/backend/analyzer_engine.py.                   *)
(*                                                                         *)
(* Arrays are records [rows, cols, v] with v a function on the 0-based     *)
(* cell coordinates <<r, c>>; numpy's empty array np.array([]) is the      *)
(* record with no rows, no columns and no cells.  Python floats are IEEE   *)
(* binary64 values, modelled exactly: a float is a sign, a 53-bit integer  *)
(* significand kept as a little-endian sequence of 15-bit limbs, and a     *)
(* binary exponent; every arithmetic operation rounds to nearest, ties to  *)
(* even, as the hardware does.                                             *)
(***************************************************************************)
EXTENDS Integers, Sequences, FiniteSets, Bags, TLC

\* ------------------------------------------------------------------------
\* Natural numbers of arbitrary size: little-endian sequences of limbs in
\* base 2^15, without leading (high) zero limbs; zero is the empty sequence.
\* ------------------------------------------------------------------------
LimbBits == 15
Base == 2^LimbBits

\* F(v), with v evaluated once
With(v, F(_)) == CHOOSE z \in {F(x) : x \in {v}} : TRUE

Abs(n) == IF n < 0 THEN -n ELSE n
Min2(a, b) == IF a <= b THEN a ELSE b
Max2(a, b) == IF a >= b THEN a ELSE b
MaxOf(S) == CHOOSE x \in S : \A y \in S : y <= x
MinOf(S) == CHOOSE x \in S : \A y \in S : x <= y

Limb(a, i) == IF 1 <= i /\ i <= Len(a) THEN a[i] ELSE 0

\* a without its leading zero limbs
Norm(a) ==
  LET nonzero == {i \in 1..Len(a) : a[i] # 0}
  IN  IF nonzero = {} THEN <<>> ELSE SubSeq(a, 1, MaxOf(nonzero))

\* the limbs of an integer 0 <= n < 2^31, and back
NatOf(n) == Norm(<<n % Base, (n \div Base) % Base, n \div (Base * Base)>>)

IntOf(a) == CASE Len(a) <= 3 -> Limb(a, 1) + Base * Limb(a, 2) + Base * Base * Limb(a, 3)

\* a + b: limb i receives a carry when a lower limb overflows and every
\* limb in between is full
AddN(a, b) ==
  LET s(i)     == Limb(a, i) + Limb(b, i)
      carry(i) == \E j \in 1..(i - 1) :
                    s(j) >= Base /\ \A k \in (j + 1)..(i - 1) : s(k) = Base - 1
  IN  Norm([i \in 1..(Max2(Len(a), Len(b)) + 1) |->
              (s(i) + (IF carry(i) THEN 1 ELSE 0)) % Base])

\* a - b for a >= b: limb i lends when a lower limb falls short and every
\* limb in between is zero
SubN(a, b) ==
  LET d(i)      == Limb(a, i) - Limb(b, i)
      borrow(i) == \E j \in 1..(i - 1) : d(j) < 0 /\ \A k \in (j + 1)..(i - 1) : d(k) = 0
  IN  Norm([i \in 1..Len(a) |-> (d(i) - (IF borrow(i) THEN 1 ELSE 0) + Base) % Base])

\* -1, 0 or 1 as a < b, a = b, a > b
CmpN(a, b) ==
  LET differ == {i \in 1..Max2(Len(a), Len(b)) : Limb(a, i) # Limb(b, i)}
  IN  IF differ = {} THEN 0
      ELSE IF Limb(a, MaxOf(differ)) > Limb(b, MaxOf(differ)) THEN 1 ELSE -1

\* a * k for a limb-sized k: the low and the high halves of the products
MulSmall(a, k) ==
  AddN([i \in 1..Len(a) |-> (a[i] * k) % Base],
       [i \in 1..(Len(a) + 1) |-> (Limb(a, i - 1) * k) \div Base])

\* a * b for a, b < Base^4: column k gathers the low halves of the products
\* of column k and the high halves of those of column k - 1
MulN(a, b) ==
  LET T(i, k) == Limb(a, i) * Limb(b, k + 1 - i)
      L(k) == (T(1, k) % Base) + (T(2, k) % Base) + (T(3, k) % Base) + (T(4, k) % Base)
      H(k) == (T(1, k) \div Base) + (T(2, k) \div Base) + (T(3, k) \div Base) + (T(4, k) \div Base)
      V(k) == L(k) + H(k - 1)
  IN  CASE Len(a) <= 4 /\ Len(b) <= 4 ->
        AddN([k \in 1..8 |-> V(k) % Base], [k \in 1..9 |-> V(k - 1) \div Base])

\* a * 2^k and floor(a / 2^k)
ShlN(a, k) ==
  LET q == k \div LimbBits
      r == k % LimbBits
  IN  Norm([i \in 1..(Len(a) + q + 1) |->
              ((Limb(a, i - q) * 2^r) % Base) + (Limb(a, i - q - 1) \div 2^(LimbBits - r))])

ShrN(a, k) ==
  LET q == k \div LimbBits
      r == k % LimbBits
  IN  Norm([i \in 1..(Len(a) - q) |->
              (Limb(a, i + q) \div 2^r) + (Limb(a, i + q + 1) % 2^r) * 2^(LimbBits - r)])

\* the number of bits of a limb, and of a
SmallBitLen(n) == Cardinality({j \in 0..(LimbBits - 1) : 2^j <= n})

BitLen(a) ==
  IF a = <<>> THEN 0 ELSE LimbBits * (Len(a) - 1) + SmallBitLen(a[Len(a)])

\* the quotient digit of r < b * Base by b, whose top limb is at least
\* Base / 2: the two top limbs of r by the top limb of b is at most 2 too large
QuotientDigit(r, b) ==
  LET n   == Len(b)
      est == Min2(Base - 1, (Limb(r, n + 1) * Base + Limb(r, n)) \div b[n])
  IN  MaxOf({t \in Max2(0, est - 2)..est : CmpN(MulSmall(b, t), r) <= 0})

\* one step of the long division: the limb brought down, the digit found
DivStep(hi, limb, b) ==
  With(Norm(<<limb>> \o hi.r), LAMBDA r1 :
    With(QuotientDigit(r1, b), LAMBDA qd :
      [q |-> Norm(<<qd>> \o hi.q), r |-> SubN(r1, MulSmall(b, qd))]))

\* long division of the limbs i.. of a by b, high limb first; the top
\* Len(b) - 1 limbs of a are the first remainder
RECURSIVE DivLimbs(_, _, _)
DivLimbs(a, b, i) ==
  IF i > Len(a) - Len(b) + 1 THEN [q |-> <<>>, r |-> Norm(SubSeq(a, i, Len(a)))]
  ELSE With(DivLimbs(a, b, i + 1), LAMBDA hi : DivStep(hi, a[i], b))

\* quotient and remainder of a by b > 0, both scaled to bring the divisor's
\* top limb to Base / 2 or more
DivModN(a, b) ==
  LET k == LimbBits - SmallBitLen(b[Len(b)])
  IN  With(DivLimbs(ShlN(a, k), ShlN(b, k), 1), LAMBDA n : [q |-> n.q, r |-> ShrN(n.r, k)])

\* ------------------------------------------------------------------------
\* IEEE-754 binary64 (Python float, numpy float64): value (-1)^neg * m * 2^e
\* with m = 0 (and e = 0) or 2^52 <= m < 2^53.  Exponent range and
\* subnormals play no part in the magnitudes the engine computes.
\* ------------------------------------------------------------------------
Precision == 53

FZero == [neg |-> FALSE, m |-> <<>>, e |-> 0]

\* round-to-nearest-even of (-1)^neg * (m + s) * 2^e, where 0 <= s < 1 and
\* sticky tells whether s > 0
RoundNE(neg, m, e, sticky) ==
  LET n == BitLen(m)
      d == n - Precision
  IN  IF m = <<>> THEN FZero
      ELSE IF n <= Precision
           THEN [neg |-> neg, m |-> ShlN(m, Precision - n), e |-> e - (Precision - n)]
      ELSE With(ShrN(m, d), LAMBDA q :
           With(CmpN(SubN(m, ShlN(q, d)), ShlN(<<1>>, d - 1)), LAMBDA c :
           With(IF c > 0 \/ (c = 0 /\ (sticky \/ q[1] % 2 = 1)) THEN AddN(q, <<1>>) ELSE q,
                LAMBDA q2 :
             IF BitLen(q2) > Precision
             THEN [neg |-> neg, m |-> ShrN(q2, 1), e |-> e + d + 1]
             ELSE [neg |-> neg, m |-> q2, e |-> e + d])))

\* int -> float
FromInt(n) == RoundNE(n < 0, NatOf(Abs(n)), 0, FALSE)

FNeg(x) == IF x.m = <<>> THEN x ELSE [x EXCEPT !.neg = ~x.neg]
FAbs(x) == [x EXCEPT !.neg = FALSE]

\* the exact sum of two floats, as an unrounded sign, integer and exponent
ExactSum(x, y) ==
  LET e0 == Min2(x.e, y.e)
      mx == ShlN(x.m, x.e - e0)
      my == ShlN(y.m, y.e - e0)
  IN  IF x.m = <<>> THEN y
      ELSE IF y.m = <<>> THEN x
      ELSE IF x.neg = y.neg THEN [neg |-> x.neg, m |-> AddN(mx, my), e |-> e0]
      ELSE IF CmpN(mx, my) >= 0 THEN [neg |-> x.neg, m |-> SubN(mx, my), e |-> e0]
      ELSE [neg |-> y.neg, m |-> SubN(my, mx), e |-> e0]

FAdd(x, y) ==
  IF x.m = <<>> THEN y
  ELSE IF y.m = <<>> THEN x
  ELSE With(ExactSum(x, y), LAMBDA s : RoundNE(s.neg, s.m, s.e, FALSE))
FSub(x, y) == FAdd(x, FNeg(y))

FMul(x, y) ==
  IF x.m = <<>> \/ y.m = <<>> THEN FZero
  ELSE RoundNE(x.neg # y.neg, MulN(x.m, y.m), x.e + y.e, FALSE)

\* x / y, defined for y # 0: 56 quotient bits, the remainder being the
\* sticky bit
FDiv(x, y) ==
  CASE y.m # <<>> ->
    IF x.m = <<>> THEN FZero
    ELSE With(DivModN(ShlN(x.m, Precision + 3), y.m), LAMBDA d :
           RoundNE(x.neg # y.neg, d.q, x.e - (Precision + 3) - y.e, d.r # <<>>))

\* -1, 0, 1 as x < y, x = y, x > y
FCmp(x, y) ==
  With(ExactSum(x, FNeg(y)), LAMBDA s : IF s.m = <<>> THEN 0 ELSE IF s.neg THEN -1 ELSE 1)

FLe(x, y) == FCmp(x, y) <= 0
FLt(x, y) == FCmp(x, y) < 0

\* int(x) of a float x >= 0: truncation
FTrunc(x) ==
  IF x.m = <<>> THEN 0
  ELSE IF x.e >= 0 THEN IntOf(ShlN(x.m, x.e))
  ELSE IntOf(ShrN(x.m, -x.e))

\* numpy.rint of a float x >= 0, as an integer: nearest, ties to even
FRint(x) ==
  IF x.m = <<>> THEN 0
  ELSE IF x.e >= 0 THEN IntOf(ShlN(x.m, x.e))
  ELSE With(ShrN(x.m, -x.e), LAMBDA q :
       With(CmpN(SubN(x.m, ShlN(q, -x.e)), ShlN(<<1>>, -x.e - 1)), LAMBDA c :
         IF c > 0 \/ (c = 0 /\ q # <<>> /\ q[1] % 2 = 1) THEN IntOf(q) + 1 ELSE IntOf(q)))

\* the float a decimal literal n/d denotes (literals are correctly rounded)
Lit(n, d) == FDiv(FromInt(n), FromInt(d))

\* ------------------------------------------------------------------------
\* Configuration (config.py)
\* ------------------------------------------------------------------------
NoiseThreshold == 5

\* FOOT_TYPE_CRITERIA: the float literals 0.21 and 0.26
FOOT_TYPE_CRITERIA == [high_arch |-> Lit(21, 100), normal |-> Lit(26, 100)]

\* VISUALIZATION['regions']: the float literals 0.3 and 0.4
REGIONS == [hindfoot_ratio |-> Lit(3, 10), midfoot_ratio |-> Lit(4, 10)]

\* None, the empty tuple and the empty dict: the function with no argument
None == <<>>
IsNone(x) == DOMAIN x = {}

\* ------------------------------------------------------------------------
\* numpy arrays
\* ------------------------------------------------------------------------
EmptyArray == [rows |-> 0, cols |-> 0, v |-> <<>>]

Cells(a) == (0..(a.rows - 1)) \X (0..(a.cols - 1))

Size(a) == a.rows * a.cols

\* the sum of w(p) * a[p] over the cells p of S (no pressure is negative):
\* the size of the bag with w(p) * a[p] copies of each cell
WeightedSum(a, S, w(_)) ==
  BagCardinality([p \in {q \in S : w(q) * a.v[q] > 0} |-> w(p) * a.v[p]])

One(p) == 1

\* np.sum(a[start:stop, :]); a slice is clipped to the rows the array has
SumRows(a, start, stop) ==
  WeightedSum(a, {p \in Cells(a) : start <= p[1] /\ p[1] < stop}, One)

\* np.sum(a)
NpSum(a) == WeightedSum(a, Cells(a), One)

\* np.max(a) of a non-empty array
NpMax(a) == CHOOSE x \in {a.v[p] : p \in Cells(a)} : \A p \in Cells(a) : a.v[p] <= x

\* the cells where a > 0
Positive(a) == {p \in Cells(a) : a.v[p] > 0}

\* a * mask, the mask being given by the set of its True cells
Masked(a, mask) == [a EXCEPT !.v = [p \in Cells(a) |-> IF p \in mask THEN a.v[p] ELSE 0]]

\* the sum and the row- and column-weighted sums of a over the cells of S
SumOver(a, S) == WeightedSum(a, S \cap Cells(a), One)
RowOf(p) == p[1]
ColOf(p) == p[2]
RowMoment(a, S) == WeightedSum(a, S \cap Cells(a), RowOf)
ColMoment(a, S) == WeightedSum(a, S \cap Cells(a), ColOf)

\* ------------------------------------------------------------------------
\* scipy.ndimage
\* ------------------------------------------------------------------------
Window(p) == {<<p[1] + dr, p[2] + dc>> : dr \in -1..1, dc \in -1..1}

\* binary_erosion and binary_dilation by the 3x3 structure of ones; cells
\* outside the array count as background (border_value = 0)
Erode(mask) == {p \in mask : Window(p) \subseteq mask}
Dilate(mask, a) == {p \in Cells(a) : Window(p) \cap mask # {}}

\* binary_opening(mask, structure = np.ones((3, 3)))
BinaryOpening(mask, a) == Dilate(Erode(mask), a)

Neighbours(p) == {<<p[1] - 1, p[2]>>, <<p[1] + 1, p[2]>>, <<p[1], p[2] - 1>>, <<p[1], p[2] + 1>>}

\* the cells of mask connected to S (default structure: 4-connectivity)
RECURSIVE Flood(_, _)
Flood(S, mask) ==
  LET more == (UNION {Neighbours(q) : q \in S} \cap mask) \ S
  IN  IF more = {} THEN S ELSE Flood(S \cup more, mask)

RasterFirst(mask) ==
  CHOOSE p \in mask : \A q \in mask : p[1] < q[1] \/ (p[1] = q[1] /\ p[2] <= q[2])

\* label(mask): the connected components, numbered in raster order of their
\* first cell; component i of the result carries the label i
RECURSIVE Label(_)
Label(mask) ==
  IF mask = {} THEN <<>>
  ELSE LET comp == Flood({RasterFirst(mask)}, mask)
       IN  <<comp>> \o Label(mask \ comp)

\* find_objects(labeled)[i]: the column slice (start, stop) of a component
ColSlice(comp) ==
  LET cs == {p[2] : p \in comp}
  IN  [start |-> CHOOSE c \in cs : \A d \in cs : c <= d,
       stop  |-> (CHOOSE c \in cs : \A d \in cs : c >= d) + 1]

\* center_of_mass(a, labeled, i)[1]: the pressure-weighted mean column
ComCol(a, comp) == FDiv(FromInt(ColMoment(a, comp)), FromInt(SumOver(a, comp)))

\* center_of_mass with the two coordinates in the order (col, row)
CenterOfMassTransposed(a) ==
  <<FDiv(FromInt(ColMoment(a, Cells(a))), FromInt(NpSum(a))),
    FDiv(FromInt(RowMoment(a, Cells(a))), FromInt(NpSum(a)))>>

\* center_of_mass(a): (row, col)
CenterOfMass(a) ==
  <<FDiv(FromInt(RowMoment(a, Cells(a))), FromInt(NpSum(a))),
    FDiv(FromInt(ColMoment(a, Cells(a))), FromInt(NpSum(a)))>>

\* ------------------------------------------------------------------------
\* FootPressureAnalyzer: the stages as functions of the arrays
\* ------------------------------------------------------------------------

\* the filter with the erosion alone, the dilation of the opening left out
FilterNoiseEroded(pressure) ==
  IF NpMax(pressure) = 0 THEN pressure
  ELSE LET thresholded ==
             [pressure EXCEPT !.v = [p \in Cells(pressure) |->
                IF pressure.v[p] > NoiseThreshold THEN pressure.v[p] ELSE 0]]
       IN  Masked(thresholded, Erode(Positive(thresholded)))

\* the filter with the threshold alone, the opening left out
FilterNoiseThresholdOnly(pressure) ==
  IF NpMax(pressure) = 0 THEN pressure
  ELSE [pressure EXCEPT !.v = [p \in Cells(pressure) |->
          IF pressure.v[p] > NoiseThreshold THEN pressure.v[p] ELSE 0]]

\* _filter_noise: the cleaned array of a non-empty pressure array
FilterNoise(pressure) ==
  IF NpMax(pressure) = 0 THEN pressure
  ELSE LET thresholded ==
             [pressure EXCEPT !.v = [p \in Cells(pressure) |->
                IF pressure.v[p] > NoiseThreshold THEN pressure.v[p] ELSE 0]]
       IN  Masked(thresholded, BinaryOpening(Positive(thresholded), thresholded))

\* the forced split with the right mask starting one column late
ForcedSplitLate(array, comp) ==
  LET mid_col == array.cols \div 2
  IN  <<Masked(array, {p \in comp : p[2] < mid_col}),
        Masked(array, {p \in comp : p[2] > mid_col})>>

\* _separate_feet, CASE 1: the forced split of the single component at mid_col
ForcedSplit(array, comp) ==
  LET mid_col == array.cols \div 2
  IN  <<Masked(array, {p \in comp : p[2] < mid_col}),
        Masked(array, {p \in comp : p[2] >= mid_col})>>

\* the test of the forced split asking for more than half of the columns
SpansAndWideHalf(array, comp) ==
  LET mid_col == array.cols \div 2
      obj     == ColSlice(comp)
  IN  /\ obj.start < mid_col /\ mid_col < obj.stop
      /\ FLt(FDiv(FromInt(array.cols), FromInt(2)), FromInt(obj.stop - obj.start))

\* the test of the forced split with the largest occupied column in the
\* place of the stop of the column slice
SpansAndWideInclusive(array, comp) ==
  LET mid_col == array.cols \div 2
      obj     == ColSlice(comp)
  IN  /\ obj.start < mid_col /\ mid_col < obj.stop - 1
      /\ FLt(FDiv(FromInt(array.cols), FromInt(3)), FromInt(obj.stop - 1 - obj.start))

\* _separate_feet, CASE 1: whether the forced split is tried
SpansAndWide(array, comp) ==
  LET mid_col == array.cols \div 2
      obj     == ColSlice(comp)
  IN  /\ obj.start < mid_col /\ mid_col < obj.stop
      /\ FLt(FDiv(FromInt(array.cols), FromInt(3)), FromInt(obj.stop - obj.start))

\* the test of CASE 2 sending a centroid on the midline to the left foot
GoesLeftInclusive(array, comp) == FLe(ComCol(array, comp), FromInt(array.cols \div 2))

\* _separate_feet, CASE 2: whether a component goes to the left foot
GoesLeft(array, comp) == FLt(ComCol(array, comp), FromInt(array.cols \div 2))

\* the split by centroids with every component sent to the left foot
CentroidSplitAllLeft(array, comps) ==
  <<Masked(array, UNION {comps[i] : i \in 1..Len(comps)}), Masked(array, {})>>

\* _separate_feet, CASE 2: every component goes as a whole to one side
CentroidSplit(array, comps) ==
  LET left == UNION {comps[i] : i \in {j \in 1..Len(comps) : GoesLeft(array, comps[j])}}
      right == UNION {comps[i] : i \in {j \in 1..Len(comps) : ~GoesLeft(array, comps[j])}}
  IN  <<Masked(array, left), Masked(array, right)>>

\* _separate_feet: <<left_foot, right_foot>>
SeparateFeet(array) ==
  IF NpSum(array) = 0 THEN <<EmptyArray, EmptyArray>>
  ELSE LET comps  == Label(Positive(array))
           forced == ForcedSplit(array, comps[1])
       IN  IF /\ Len(comps) = 1
              /\ SpansAndWide(array, comps[1])
              /\ NpSum(forced[1]) > 0 /\ NpSum(forced[2]) > 0
           THEN forced
           ELSE CentroidSplit(array, comps)

\* the zones with the midfoot bound taken from min_r instead of hind_end
GetFootZoneIndicesFromMin(foot_bbox) ==
  IF IsNone(foot_bbox) THEN None
  ELSE LET min_r  == foot_bbox[1]
           max_r  == foot_bbox[2]
           height == max_r - min_r + 1
       IN  IF height < 3 THEN None
           ELSE With(min_r + FTrunc(FMul(FromInt(height), REGIONS.hindfoot_ratio)),
                     LAMBDA hind_end :
                With(min_r + FTrunc(FMul(FromInt(height), REGIONS.midfoot_ratio)),
                     LAMBDA mid_end :
                  [hind |-> [start |-> min_r, stop |-> hind_end],
                   mid  |-> [start |-> hind_end, stop |-> mid_end],
                   fore |-> [start |-> mid_end, stop |-> max_r + 1]]))

\* the zones with the forefoot ending at max_r instead of max_r + 1
GetFootZoneIndicesShort(foot_bbox) ==
  IF IsNone(foot_bbox) THEN None
  ELSE LET min_r  == foot_bbox[1]
           max_r  == foot_bbox[2]
           height == max_r - min_r + 1
       IN  IF height < 3 THEN None
           ELSE With(min_r + FTrunc(FMul(FromInt(height), REGIONS.hindfoot_ratio)),
                     LAMBDA hind_end :
                With(hind_end + FTrunc(FMul(FromInt(height), REGIONS.midfoot_ratio)),
                     LAMBDA mid_end :
                  [hind |-> [start |-> min_r, stop |-> hind_end],
                   mid  |-> [start |-> hind_end, stop |-> mid_end],
                   fore |-> [start |-> mid_end, stop |-> max_r]]))

\* the zones without the check of the height
GetFootZoneIndicesAnyHeight(foot_bbox) ==
  IF IsNone(foot_bbox) THEN None
  ELSE LET min_r  == foot_bbox[1]
           max_r  == foot_bbox[2]
           height == max_r - min_r + 1
       IN  With(min_r + FTrunc(FMul(FromInt(height), REGIONS.hindfoot_ratio)),
                LAMBDA hind_end :
           With(hind_end + FTrunc(FMul(FromInt(height), REGIONS.midfoot_ratio)),
                LAMBDA mid_end :
             [hind |-> [start |-> min_r, stop |-> hind_end],
              mid  |-> [start |-> hind_end, stop |-> mid_end],
              fore |-> [start |-> mid_end, stop |-> max_r + 1]]))

\* _get_foot_zone_indices: None, or the three row ranges of the bounding box
GetFootZoneIndices(foot_bbox) ==
  IF IsNone(foot_bbox) THEN None
  ELSE LET min_r  == foot_bbox[1]
           max_r  == foot_bbox[2]
           height == max_r - min_r + 1
       IN  IF height < 3 THEN None
           ELSE With(min_r + FTrunc(FMul(FromInt(height), REGIONS.hindfoot_ratio)),
                     LAMBDA hind_end :
                With(hind_end + FTrunc(FMul(FromInt(height), REGIONS.midfoot_ratio)),
                     LAMBDA mid_end :
                  [hind |-> [start |-> min_r, stop |-> hind_end],
                   mid  |-> [start |-> hind_end, stop |-> mid_end],
                   fore |-> [start |-> mid_end, stop |-> max_r + 1]]))

\* get_virtual_footprint: None, or (min_r, max_r) over the rows with pressure
GetVirtualFootprint(foot_array) ==
  IF NpSum(foot_array) = 0 THEN None
  ELSE LET rows_with_pressure == {p[1] : p \in Positive(foot_array)}
       IN  IF rows_with_pressure = {} THEN None
           ELSE <<CHOOSE r \in rows_with_pressure : \A q \in rows_with_pressure : r <= q,
                  CHOOSE r \in rows_with_pressure : \A q \in rows_with_pressure : r >= q>>

\* the bounding box taken from the first foot that has one
CombinedBBoxOfFirst(left_bbox, right_bbox) ==
  IF ~IsNone(left_bbox) THEN left_bbox ELSE right_bbox

\* the bounding box over both feet (None when neither has one)
CombinedBBox(left_bbox, right_bbox) ==
  LET boxes == {b \in {left_bbox, right_bbox} : ~IsNone(b)}
  IN  IF boxes = {} THEN None
      ELSE <<CHOOSE r \in {b[1] : b \in boxes} : \A b \in boxes : r <= b[1],
             CHOOSE r \in {b[2] : b \in boxes} : \A b \in boxes : r >= b[2]>>

ZoneNames == {"hind", "mid", "fore"}
ZoneKey(prefix, zone_name) ==
  prefix \o (IF zone_name = "hind" THEN "H" ELSE IF zone_name = "mid" THEN "M" ELSE "F")

\* (sum_in_zone / foot_total_pressure) * 100
Percentage(sum_in_zone, foot_total) ==
  FMul(FDiv(FromInt(sum_in_zone), FromInt(foot_total)), FromInt(100))

\* the distribution with the percentages taken of the pressure of both feet
DistributionOfTotal(left, right, zones) ==
  LET feet == {f \in {[prefix |-> "L", arr |-> left], [prefix |-> "R", arr |-> right]} :
                 NpSum(f.arr) # 0}
      keys == {ZoneKey(f.prefix, z) : f \in feet, z \in ZoneNames}
      entry(k) ==
        LET f == CHOOSE g \in feet : \E z \in ZoneNames : ZoneKey(g.prefix, z) = k
            z == CHOOSE y \in ZoneNames : ZoneKey(f.prefix, y) = k
        IN  Percentage(SumRows(f.arr, zones[z].start, zones[z].stop),
                       NpSum(left) + NpSum(right))
  IN  [k \in keys |-> entry(k)]

\* the distribution with entries for both feet, zero for a foot without pressure
DistributionOfBoth(left, right, zones) ==
  LET feet == {[prefix |-> "L", arr |-> left], [prefix |-> "R", arr |-> right]}
      keys == {ZoneKey(f.prefix, z) : f \in feet, z \in ZoneNames}
      entry(k) ==
        LET f == CHOOSE g \in feet : \E z \in ZoneNames : ZoneKey(g.prefix, z) = k
            z == CHOOSE y \in ZoneNames : ZoneKey(f.prefix, y) = k
        IN  IF NpSum(f.arr) = 0 THEN FZero
            ELSE Percentage(SumRows(f.arr, zones[z].start, zones[z].stop), NpSum(f.arr))
  IN  [k \in keys |-> entry(k)]

\* the distribution entries of the feet that have pressure
Distribution(left, right, zones) ==
  LET feet == {f \in {[prefix |-> "L", arr |-> left], [prefix |-> "R", arr |-> right]} :
                 NpSum(f.arr) # 0}
      keys == {ZoneKey(f.prefix, z) : f \in feet, z \in ZoneNames}
      entry(k) ==
        LET f == CHOOSE g \in feet : \E z \in ZoneNames : ZoneKey(g.prefix, z) = k
            z == CHOOSE y \in ZoneNames : ZoneKey(f.prefix, y) = k
        IN  Percentage(SumRows(f.arr, zones[z].start, zones[z].stop), NpSum(f.arr))
  IN  [k \in keys |-> entry(k)]

\* the classification with strict comparisons
ClassifyArchStrict(ratio) ==
  IF FLt(ratio, FOOT_TYPE_CRITERIA.high_arch) THEN "High Arch"
  ELSE IF FLt(ratio, FOOT_TYPE_CRITERIA.normal) THEN "Normal"
  ELSE "Flat Foot"

\* _classify_arch
ClassifyArch(ratio) ==
  IF FLe(ratio, FOOT_TYPE_CRITERIA.high_arch) THEN "High Arch"
  ELSE IF FLe(ratio, FOOT_TYPE_CRITERIA.normal) THEN "Normal"
  ELSE "Flat Foot"

\* round(x, 1) of a numpy float64 x >= 0: rint(x * 10) / 10
Round1(x) == FDiv(FromInt(FRint(FMul(x, FromInt(10)))), FromInt(10))

\* the score with the deviation weighted by 25 instead of 50
CalculateArchScoreFlat(arch_index) ==
  With(FOOT_TYPE_CRITERIA.high_arch, LAMBDA high_thresh :
  With(FOOT_TYPE_CRITERIA.normal, LAMBDA normal_thresh :
  With(FDiv(FAdd(high_thresh, normal_thresh), FromInt(2)), LAMBDA ideal :
  With(FDiv(FSub(normal_thresh, high_thresh), FromInt(2)), LAMBDA width :
    IF width = FZero THEN (IF arch_index = ideal THEN FromInt(100) ELSE FZero)
    ELSE With(FDiv(FAbs(FSub(arch_index, ideal)), width), LAMBDA deviation :
         With(FSub(FromInt(100), FMul(deviation, FromInt(25))), LAMBDA score :
           IF FLt(FZero, score) THEN Round1(score) ELSE FZero))))))

\* _calculate_arch_score
CalculateArchScore(arch_index) ==
  With(FOOT_TYPE_CRITERIA.high_arch, LAMBDA high_thresh :
  With(FOOT_TYPE_CRITERIA.normal, LAMBDA normal_thresh :
  With(FDiv(FAdd(high_thresh, normal_thresh), FromInt(2)), LAMBDA ideal :
  With(FDiv(FSub(normal_thresh, high_thresh), FromInt(2)), LAMBDA width :
    IF width = FZero THEN (IF arch_index = ideal THEN FromInt(100) ELSE FZero)
    ELSE With(FDiv(FAbs(FSub(arch_index, ideal)), width), LAMBDA deviation :
         With(FSub(FromInt(100), FMul(deviation, FromInt(50))), LAMBDA score :
           IF FLt(FZero, score) THEN Round1(score) ELSE FZero))))))

\* the score as a number of tenths (scores are multiples of 0.1)
Tenths(score) == FRint(FMul(score, FromInt(10)))

NoData == [type |-> "No Data", value |-> FZero, score |-> FZero]

\* the entry with the midfoot pressure read from the hindfoot rows
FootTypeOfHind(foot_array, zones) ==
  LET mid_pressure        == SumRows(foot_array, zones.hind.start, zones.hind.stop)
      foot_total_pressure == NpSum(foot_array)
  IN  IF foot_total_pressure = 0 THEN NoData
      ELSE With(FDiv(FromInt(mid_pressure), FromInt(foot_total_pressure)), LAMBDA arch_index :
             [type  |-> ClassifyArch(arch_index),
              value |-> arch_index,
              score |-> CalculateArchScore(arch_index)])

\* one entry of foot_types
FootType(foot_array, zones) ==
  LET mid_pressure        == SumRows(foot_array, zones.mid.start, zones.mid.stop)
      foot_total_pressure == NpSum(foot_array)
  IN  IF foot_total_pressure = 0 THEN NoData
      ELSE With(FDiv(FromInt(mid_pressure), FromInt(foot_total_pressure)), LAMBDA arch_index :
             [type  |-> ClassifyArch(arch_index),
              value |-> arch_index,
              score |-> CalculateArchScore(arch_index)])

\* ------------------------------------------------------------------------
\* Input data: the 'RawPressureByRows' mapping of the JSON document, as the
\* sequence of its items in file order.  An item is a row key and a row
\* value: the key is the text after "Row_", the value the list of texts its
\* split(', ') yields.  A text is a sequence of characters: a digit is the
\* number it writes, Letter is a character that is no digit.
\* ------------------------------------------------------------------------
Letter == 10

\* str(n) for n >= 0
RECURSIVE Text(_)
Text(n) == IF n < 10 THEN <<n>> ELSE Text(n \div 10) \o <<n % 10>>

\* whether int(t) returns (it raises ValueError otherwise)
\* a conversion that accepts every text
IsNumberLenient(t) == TRUE

IsNumber(t) == t # <<>> /\ \A i \in 1..Len(t) : t[i] < Letter

\* int(t) of a text of digits
RECURSIVE ParseInt(_)
ParseInt(t) ==
  IF t = <<>> THEN 0 ELSE 10 * ParseInt(SubSeq(t, 1, Len(t) - 1)) + t[Len(t)]

Range(f) == {f[i] : i \in DOMAIN f}

\* whether text s precedes text t in the order of strings
TextLess(s, t) ==
  \E k \in 1..Len(t) :
    /\ \A i \in 1..(k - 1) : i <= Len(s) /\ s[i] = t[i]
    /\ k > Len(s) \/ s[k] < t[k]

\* the items sorted by the row keys as strings
SortedItemsByText(items) ==
  [i \in 1..Len(items) |->
     CHOOSE x \in Range(items) :
       Cardinality({y \in Range(items) : TextLess(y.key, x.key)}) = i - 1]

\* sorted(pressure_rows.keys(), key = int(x.split('_')[1])), with the values
SortedItems(items) ==
  [i \in 1..Len(items) |->
     CHOOSE x \in Range(items) :
       Cardinality({y \in Range(items) : ParseInt(y.key) < ParseInt(x.key)}) = i - 1]

\* np.array(pressure_matrix) of a rectangular matrix
ArrayOf(matrix) ==
  [rows |-> Len(matrix), cols |-> Len(matrix[1]),
   v |-> [p \in (0..(Len(matrix) - 1)) \X (0..(Len(matrix[1]) - 1)) |->
            matrix[p[1] + 1][p[2] + 1]]]

\* the one-dimensional array of n lists (dtype object) that numpy before
\* 1.24 builds from rows of different lengths
ObjectArray(n) == [rows |-> n, cols |-> 1, v |-> <<>>, dtype |-> "object"]
IsObjectArray(a) == "dtype" \in DOMAIN a

\* np.array(pressure_matrix): the arrays it can return; rows of different
\* lengths raise ValueError (caught: np.array([])) or, before numpy 1.24,
\* give an array of lists
NpArray(matrix) ==
  IF \A i \in 1..Len(matrix) : Len(matrix[i]) = Len(matrix[1])
  THEN {ArrayOf(matrix)}
  ELSE {EmptyArray, ObjectArray(Len(matrix))}

\* the matrix of the parsed cells, rows in the order of the sorted keys
PressureMatrix(items) ==
  With(SortedItems(items), LAMBDA sorted :
    [i \in 1..Len(sorted) |-> [j \in 1..Len(sorted[i].cells) |-> ParseInt(sorted[i].cells[j])]])

\* _load_data / _process_input_data: the arrays it can leave in
\* pressure_array; a missing mapping and a ValueError leave np.array([])
LoadData(data) ==
  IF IsNone(data.RawPressureByRows) THEN {EmptyArray}
  ELSE IF \E x \in Range(data.RawPressureByRows) :
            ~IsNumber(x.key) \/ \E j \in 1..Len(x.cells) : ~IsNumber(x.cells[j])
       THEN {EmptyArray}
  ELSE NpArray(PressureMatrix(data.RawPressureByRows))

\* ------------------------------------------------------------------------
\* The inputs the model is checked on.  A document holds a grid of NRows x
\* NCols cells painted with at most one solid block (a foot-sized rectangle)
\* and one further rectangle of any height laid over it; or it is one of the
\* documents of the scenarios, on a ScenarioSize x ScenarioSize grid.
\* ------------------------------------------------------------------------
NRows == 4
NCols == 9
BlockPressure == 10
MaxPressure == 20
ScenarioSize == 10

Rect(r1, r2, c1, c2, val) == [r1 |-> r1, r2 |-> r2, c1 |-> c1, c2 |-> c2, val |-> val]
NoRect == Rect(0, -1, 0, -1, 0)
InRect(b, r, c) == b.r1 <= r /\ r <= b.r2 /\ b.c1 <= c /\ c <= b.c2

RowRanges == {rr \in (0..(NRows - 1)) \X (0..(NRows - 1)) : rr[2] - rr[1] >= 2}

\* foot-sized blocks: at least three rows, three columns
SolidBlocks ==
  {Rect(rr[1], rr[2], c1, c1 + 2, BlockPressure) : rr \in RowRanges, c1 \in 0..(NCols - 1)}

\* what is laid over the block: a second block of a higher pressure, a
\* stripe of noise (three columns at the noise threshold), or a line one
\* cell wide (down a column or along row 0)
OverlayBlocks ==
  {Rect(rr[1], rr[2], c1, c1 + 2, MaxPressure) : rr \in RowRanges, c1 \in 0..(NCols - 1)}
  \cup {Rect(0, NRows - 1, c1, c1 + 2, NoiseThreshold) : c1 \in 0..(NCols - 1)}
  \cup {Rect(0, NRows - 1, c1, c1, MaxPressure) : c1 \in 0..(NCols - 1)}
  \cup {Rect(0, 0, 0, NCols - 1, MaxPressure)}

Fits(b) == b.c2 <= NCols - 1

\* the document of a grid of the given shape painted with a, then with b
Document(rows, cols, a, b) ==
  [RawPressureByRows |->
     [i \in 1..rows |->
        [key |-> Text(i - 1),
         cells |-> [j \in 1..cols |->
                      Text(IF InRect(b, i - 1, j - 1) THEN b.val
                           ELSE IF InRect(a, i - 1, j - 1) THEN a.val ELSE 0)]]]]

GridDocuments ==
  {Document(NRows, NCols, a, b) :
     a \in {x \in SolidBlocks : Fits(x)} \cup {NoRect},
     b \in {x \in OverlayBlocks : Fits(x)} \cup {NoRect}}

\* scenario: an all-zero grid
ZeroDocument == Document(ScenarioSize, ScenarioSize, NoRect, NoRect)

\* scenario: a single 3x3 block at rows 0-2, columns 0-2
CornerBlockDocument ==
  Document(ScenarioSize, ScenarioSize, Rect(0, 2, 0, 2, BlockPressure), NoRect)

\* scenario: two separated square blocks of one value, one on each side of
\* the midline, on the same rows
BlockSide == 5
TwoBlocksRows == 7
TwoBlocksCols == 12

TwoBlocksDocuments ==
  {Document(TwoBlocksRows, TwoBlocksCols,
            Rect(r, r + BlockSide - 1, cl, cl + BlockSide - 1, val),
            Rect(r, r + BlockSide - 1, cr, cr + BlockSide - 1, val)) :
     r \in 0..(TwoBlocksRows - BlockSide),
     cl \in 0..((TwoBlocksCols \div 2) - BlockSide),
     cr \in {c \in (TwoBlocksCols \div 2)..(TwoBlocksCols - BlockSide) : c > BlockSide},
     val \in {NoiseThreshold, BlockPressure, MaxPressure}}

\* malformed documents: no 'RawPressureByRows'; a cell that is no number
\* (a letter, an empty text, a digit followed by a letter); a row one cell
\* short
FootDocument == Document(NRows, NCols, Rect(0, NRows - 1, 0, 2, BlockPressure), NoRect)

MissingFieldDocument == [RawPressureByRows |-> None]

NonNumericDocuments ==
  {[FootDocument EXCEPT !.RawPressureByRows[i].cells[j] = t] :
     i \in {1, NRows}, j \in {1, NCols}, t \in {<<Letter>>, <<>>, <<1, Letter>>}}

RaggedDocuments ==
  {[FootDocument EXCEPT !.RawPressureByRows[i].cells = SubSeq(@, 1, NCols - 1)] :
     i \in 1..NRows}

\* documents whose rows are not in the order of their keys: the rows "Row_1",
\* "Row_2" and "Row_10" in every file order, each row starting with the
\* number of its key
KeyOrders ==
  {o \in [1..3 -> {1, 2, 10}] : \A i, j \in 1..3 : i # j => o[i] # o[j]}

ShuffledDocuments ==
  {[RawPressureByRows |->
      [i \in 1..3 |-> [key |-> Text(o[i]), cells |-> <<Text(o[i]), Text(0), Text(0)>>]]] :
     o \in KeyOrders}

Documents ==
  GridDocuments \cup {ZeroDocument, CornerBlockDocument} \cup TwoBlocksDocuments
  \cup {MissingFieldDocument} \cup NonNumericDocuments \cup RaggedDocuments
  \cup ShuffledDocuments

\* ------------------------------------------------------------------------
\* State: the fields of one FootPressureAnalyzer, the position of its
\* run_analysis call and the value the call returned
\* ------------------------------------------------------------------------
VARIABLES
  json_data,         \* the loaded JSON document
  pc,                \* the stage run_analysis executes next
  result,            \* what run_analysis returned: "True" or "False"
  pressure_array, cleaned_array, left_foot, right_foot,
  distribution, foot_types, final_bbox, cop, analysis_results, error_message,
  call,              \* a direct call of a pure method: argument and result
  peer,              \* a second analyzer, while its run_analysis is not the one running
  input_path,        \* FootPressureApp: the text of the path entry
  btn_run, btn_browse,   \* the state option of the two buttons
  log_queue,         \* queue.Queue of the messages not yet shown
  log_text,          \* the lines of the log widget
  log_poller,        \* the id of the scheduled _process_log_queue, or None
  after_calls,       \* the callbacks scheduled with after() that have not run
  threads            \* the worker threads started so far, by run number

fields == <<pressure_array, cleaned_array, left_foot, right_foot, distribution,
            foot_types, final_bbox, cop, analysis_results, error_message>>

gui == <<input_path, btn_run, btn_browse, log_queue, log_text, log_poller,
         after_calls, threads>>

vars == <<json_data, pc, result, fields, call, peer, gui>>

\* __init__
InitFields ==
  /\ pressure_array = EmptyArray
  /\ cleaned_array = EmptyArray
  /\ left_foot = EmptyArray
  /\ right_foot = EmptyArray
  /\ distribution = None
  /\ foot_types = None
  /\ final_bbox = None
  /\ cop = None
  /\ analysis_results = None
  /\ error_message = None

\* FootPressureApp.__init__
InitApp ==
  /\ input_path = ""
  /\ btn_run = "normal"
  /\ btn_browse = "normal"
  /\ log_queue = <<>>
  /\ log_text = <<>>
  /\ log_poller = None
  /\ after_calls = {}
  /\ threads = <<>>

Init ==
  /\ json_data \in Documents
  /\ pc = "load"
  /\ result = "running"
  /\ InitFields
  /\ call = None
  /\ peer = None
  /\ InitApp

\* the message of run_analysis about an exception raised in a stage
ErrorMessage(exception) == <<"run_analysis", exception>>

\* run_analysis: self._load_data(), then the check of pressure_array.size
Load ==
  /\ pc = "load"
  /\ pressure_array' \in LoadData(json_data)
  /\ IF Size(pressure_array') = 0
     THEN pc' = "done" /\ result' = "False"
     ELSE pc' = "filter" /\ result' = result
  /\ UNCHANGED <<json_data, cleaned_array, left_foot, right_foot, distribution,
                 foot_types, final_bbox, cop, analysis_results, error_message, call, peer, gui>>

\* self._filter_noise(); on an array of lists the comparison with the
\* threshold raises TypeError, which run_analysis catches
FilterNoiseStage ==
  /\ pc = "filter"
  /\ IF IsObjectArray(pressure_array)
     THEN /\ error_message' = ErrorMessage("TypeError")
          /\ result' = "False"
          /\ pc' = "done"
          /\ cleaned_array' = cleaned_array
     ELSE /\ cleaned_array' = FilterNoise(pressure_array)
          /\ pc' = "cop"
          /\ UNCHANGED <<error_message, result>>
  /\ UNCHANGED <<json_data, pressure_array, left_foot, right_foot, distribution,
                 foot_types, final_bbox, cop, analysis_results, call, peer, gui>>

\* _calculate_cop: the new value of cop
Cop(cleaned) ==
  IF Size(cleaned) = 0 \/ NpSum(cleaned) = 0 THEN None ELSE CenterOfMass(cleaned)

\* self._calculate_cop()
CalculateCop ==
  /\ pc = "cop"
  /\ cop' = Cop(cleaned_array)
  /\ pc' = "distribution"
  /\ UNCHANGED <<json_data, result, pressure_array, cleaned_array, left_foot, right_foot,
                 distribution, foot_types, final_bbox, analysis_results, error_message,
                 call, peer, gui>>

\* _calculate_pressure_distribution: the new values of left_foot, right_foot,
\* final_bbox and distribution (entries are added to the dict there was)
PressureDistribution(cleaned, old_bbox, old_distribution) ==
  With(SeparateFeet(cleaned), LAMBDA feet :
    LET left_bbox  == GetVirtualFootprint(feet[1])
        right_bbox == GetVirtualFootprint(feet[2])
        bbox       == CombinedBBox(left_bbox, right_bbox)
    IN  [left_foot  |-> feet[1],
         right_foot |-> feet[2],
         final_bbox |-> IF IsNone(left_bbox) /\ IsNone(right_bbox) THEN old_bbox ELSE bbox,
         distribution |->
           IF \/ IsNone(left_bbox) /\ IsNone(right_bbox)
              \/ NpSum(feet[1]) + NpSum(feet[2]) = 0
           THEN old_distribution
           ELSE With(GetFootZoneIndices(bbox), LAMBDA zones :
                  IF IsNone(zones) THEN old_distribution
                  ELSE Distribution(feet[1], feet[2], zones) @@ old_distribution)])

\* self._calculate_pressure_distribution()
CalculatePressureDistribution ==
  /\ pc = "distribution"
  /\ \E new \in {PressureDistribution(cleaned_array, final_bbox, distribution)} :
       /\ left_foot' = new.left_foot
       /\ right_foot' = new.right_foot
       /\ final_bbox' = new.final_bbox
       /\ distribution' = new.distribution
  /\ pc' = "foot_type"
  /\ UNCHANGED <<json_data, result, pressure_array, cleaned_array, foot_types, cop,
                 analysis_results, error_message, call, peer, gui>>

\* _analyze_foot_type: the new value of foot_types; "left" and "right" stand
\* for the keys of the source, the Korean words for the two sides
FootTypes(bbox, left, right, old_foot_types) ==
  With(GetFootZoneIndices(bbox), LAMBDA zones :
    IF IsNone(zones) THEN old_foot_types
    ELSE [name \in {"left", "right"} |->
            FootType(IF name = "left" THEN left ELSE right, zones)])

\* self._analyze_foot_type()
AnalyzeFootType ==
  /\ pc = "foot_type"
  /\ foot_types' = FootTypes(final_bbox, left_foot, right_foot, foot_types)
  /\ pc' = "results"
  /\ UNCHANGED <<json_data, result, pressure_array, cleaned_array, left_foot, right_foot,
                 distribution, final_bbox, cop, analysis_results, error_message, call, peer, gui>>

\* the results without the entry for the zones
FinalResultsWithoutZones(dist, types, bbox, centre) ==
  [distribution |-> dist,
   foot_types   |-> types,
   final_bbox   |-> bbox,
   cop          |-> centre]

\* _prepare_final_results: the new value of analysis_results
FinalResults(dist, types, bbox, centre) ==
  [distribution |-> dist,
   foot_types   |-> types,
   final_bbox   |-> bbox,
   zones        |-> GetFootZoneIndices(bbox),
   cop          |-> centre]

\* self._prepare_final_results(), and the return of run_analysis
PrepareFinalResults ==
  /\ pc = "results"
  /\ analysis_results' = FinalResults(distribution, foot_types, final_bbox, cop)
  /\ pc' = "done"
  /\ result' = "True"
  /\ UNCHANGED <<json_data, pressure_array, cleaned_array, left_foot, right_foot,
                 distribution, foot_types, final_bbox, cop, error_message, call, peer, gui>>

Next ==
  \/ Load
  \/ FilterNoiseStage
  \/ CalculateCop
  \/ CalculatePressureDistribution
  \/ AnalyzeFootType
  \/ PrepareFinalResults

Spec == Init /\ [][Next]_vars

\* ------------------------------------------------------------------------
\* The analysis of a document (Spec)
\* ------------------------------------------------------------------------
Separated == pc \in {"foot_type", "results", "done"}

Analysed == pc = "done" /\ result = "True"

Sides == {[name |-> "left", prefix |-> "L"], [name |-> "right", prefix |-> "R"]}

FootOf(side) == IF side.name = "left" THEN left_foot ELSE right_foot

\* C1: for a cleaned grid with pressure, the left and the right grid have the
\* shape of the cleaned grid, add up to it cell by cell, and no cell is
\* nonzero in both (on the forced split and on the split by centroids).
C1_MassConservation ==
  (Separated /\ NpSum(cleaned_array) > 0) =>
    /\ left_foot.rows = cleaned_array.rows /\ left_foot.cols = cleaned_array.cols
    /\ right_foot.rows = cleaned_array.rows /\ right_foot.cols = cleaned_array.cols
    /\ \A p \in Cells(cleaned_array) :
         /\ left_foot.v[p] + right_foot.v[p] = cleaned_array.v[p]
         /\ ~(left_foot.v[p] # 0 /\ right_foot.v[p] # 0)

\* a forced split: two cells side by side, one on either foot
C1_Witness ==
  /\ Separated
  /\ \E p \in Cells(left_foot) :
       /\ p[2] + 1 < left_foot.cols
       /\ left_foot.v[p] > 0
       /\ right_foot.v[<<p[1], p[2] + 1>>] > 0

ZoneSum(foot, zone) == SumRows(foot, zone.start, zone.stop)

Hundred(x) == FLe(FAbs(FSub(x, FromInt(100))), Lit(1, 1000000))

\* C2: in the result of an analysis, for each side whose foot grid has
\* pressure, the three zone sums of that foot add up to the foot's total
\* and its three percentages to 100 (within 1e-6).
C2_DistributionSums ==
  Analysed =>
    \A side \in Sides : NpSum(FootOf(side)) > 0 =>
      LET zones == analysis_results.zones
          d     == analysis_results.distribution
          foot  == FootOf(side)
      IN  /\ ~IsNone(zones)
          /\ ZoneSum(foot, zones.hind) + ZoneSum(foot, zones.mid) + ZoneSum(foot, zones.fore)
               = NpSum(foot)
          /\ {ZoneKey(side.prefix, z) : z \in ZoneNames} \subseteq DOMAIN d
          /\ Hundred(FAdd(FAdd(d[ZoneKey(side.prefix, "hind")],
                               d[ZoneKey(side.prefix, "mid")]),
                          d[ZoneKey(side.prefix, "fore")]))

\* both feet have pressure, in all three zones
C2_Witness ==
  /\ Analysed
  /\ \A side \in Sides : \A z \in ZoneNames :
       /\ ZoneKey(side.prefix, z) \in DOMAIN analysis_results.distribution
       /\ analysis_results.distribution[ZoneKey(side.prefix, z)] # FZero

\* value is the float nearest to n / d (d > 0): |value * d - n| <= d * ulp / 2
IndexIs(value, n, d) ==
  LET a    == MulSmall(value.m, d)
      b    == ShlN(NatOf(n), -value.e)
      diff == IF CmpN(a, b) >= 0 THEN SubN(a, b) ELSE SubN(b, a)
  IN  /\ ~value.neg
      /\ value.e <= 0
      /\ CmpN(MulSmall(diff, 2), NatOf(d)) <= 0

\* ten times max(0, 100 - 50 * |mid / total - 0.235| / 0.025), times total
ExactScore(mid, total) == Max2(0, 1000 * total - 100 * Abs(200 * mid - 47 * total))

Reported(side) == side.name \in DOMAIN analysis_results.foot_types

HasData(side) == Reported(side) /\ analysis_results.foot_types[side.name].type # "No Data"

MidOf(side) == ZoneSum(FootOf(side), analysis_results.zones.mid)

\* C7 as stated: the reported index is in [0, 1] and the reported score is
\* max(0, 100 - 50 * |index - 0.235| / 0.025), in [0, 100].
C7_ScoreIsFormula ==
  Analysed =>
    \A side \in Sides : HasData(side) =>
      LET t     == analysis_results.foot_types[side.name]
          total == NpSum(FootOf(side))
      IN  /\ total > 0
          /\ IndexIs(t.value, MidOf(side), total)
          /\ FLe(FZero, t.value) /\ FLe(t.value, FromInt(1))
          /\ Tenths(t.score) * total = ExactScore(MidOf(side), total)

\* C7, amended: the reported index is the midfoot share of the foot's
\* pressure, in [0, 1], and the reported score is a multiple of 0.1 in
\* [0, 100] within 0.05 of max(0, 100 - 50 * |index - 0.235| / 0.025): the
\* value of the formula rounded to one decimal.
C7_ScoreIsRoundedFormula ==
  Analysed =>
    \A side \in Sides : HasData(side) =>
      LET t     == analysis_results.foot_types[side.name]
          total == NpSum(FootOf(side))
      IN  /\ total > 0
          /\ IndexIs(t.value, MidOf(side), total)
          /\ FLe(FZero, t.value) /\ FLe(t.value, FromInt(1))
          /\ t.score = FDiv(FromInt(Tenths(t.score)), FromInt(10))
          /\ Tenths(t.score) \in 0..1000
          /\ 2 * Abs(Tenths(t.score) * total - ExactScore(MidOf(side), total)) <= total

\* a score strictly between 0 and 100 that the rounding has changed
C7_Witness ==
  /\ Analysed
  /\ \E side \in Sides :
       /\ HasData(side)
       /\ Tenths(analysis_results.foot_types[side.name].score) \in 1..999
       /\ Tenths(analysis_results.foot_types[side.name].score) * NpSum(FootOf(side))
            # ExactScore(MidOf(side), NpSum(FootOf(side)))

\* C8: the analysis of the all-zero grid succeeds with no centre of
\* pressure, an empty distribution, and a left and a right foot type that
\* are both the no-data entry (index 0, score 0).
C8_ZeroGrid ==
  (json_data = ZeroDocument /\ pc = "done") =>
    /\ result = "True"
    /\ IsNone(analysis_results.cop)
    /\ DOMAIN analysis_results.distribution = {}
    /\ \A side \in Sides :
         /\ Reported(side)
         /\ analysis_results.foot_types[side.name] = NoData

AnalysedCornerBlock == json_data = CornerBlockDocument /\ Analysed

\* C9 as stated: for the grid with the single 3x3 block the left foot type
\* is present and is high arch or normal.
C9_CornerBlockHighOrNormal ==
  AnalysedCornerBlock =>
    /\ "left" \in DOMAIN analysis_results.foot_types
    /\ analysis_results.foot_types.left.type \in {"High Arch", "Normal"}

\* C9, amended: for the grid with the single 3x3 block the left foot type is
\* present, with arch index 1/3 (the one midfoot row of the three), and is
\* classified by that index: flat foot, with score 0.
C9_CornerBlockFlat ==
  AnalysedCornerBlock =>
    /\ "left" \in DOMAIN analysis_results.foot_types
    /\ IndexIs(analysis_results.foot_types.left.value, 1, 3)
    /\ analysis_results.foot_types.left.type = "Flat Foot"
    /\ analysis_results.foot_types.left.score = FZero
    /\ analysis_results.zones.mid = [start |-> 0, stop |-> 1]

C9_Witness ==
  /\ AnalysedCornerBlock
  /\ NpSum(left_foot) = 9 * BlockPressure
  /\ analysis_results.foot_types.left.type = "Flat Foot"

OnlyLeft == Analysed /\ NpSum(left_foot) > 0 /\ NpSum(right_foot) = 0

\* C10: when only the left foot has pressure, the right foot type is the
\* no-data entry with index 0 and score 0, and the keys of the distribution
\* are those of the left side: LH, LM and LF.
C10_OnlyLeftFoot ==
  OnlyLeft =>
    /\ "right" \in DOMAIN analysis_results.foot_types
    /\ analysis_results.foot_types.right = NoData
    /\ DOMAIN analysis_results.distribution = {"LH", "LM", "LF"}

C10_Witness ==
  /\ OnlyLeft
  /\ json_data = CornerBlockDocument
  /\ analysis_results.foot_types.right.type = "No Data"
  /\ "RH" \notin DOMAIN analysis_results.distribution

\* ------------------------------------------------------------------------
\* _get_foot_zone_indices called directly, on None and on every bounding box
\* within the first MaxRow + 1 rows
\* ------------------------------------------------------------------------
MaxRow == 15

BBoxes == {None} \cup {bb \in (0..MaxRow) \X (0..MaxRow) : bb[1] <= bb[2]}

IdleAnalyzer ==
  /\ json_data = [RawPressureByRows |-> None]
  /\ peer = None
  /\ InitApp
  /\ result = "running"
  /\ InitFields

InitZones ==
  /\ IdleAnalyzer
  /\ pc = "call"
  /\ \E bb \in BBoxes : call = [arg |-> bb, ret |-> None]

ZonesCall ==
  /\ pc = "call"
  /\ call' = [call EXCEPT !.ret = GetFootZoneIndices(call.arg)]
  /\ pc' = "return"
  /\ UNCHANGED <<json_data, result, fields, peer, gui>>

SpecZones == InitZones /\ [][ZonesCall]_vars

\* ------------------------------------------------------------------------
\* _classify_arch and _calculate_arch_score called directly on two arch
\* indices, each the float quotient n / d of two integers as
\* _analyze_foot_type forms it.  The first index is a multiple of 1 / ArchDen
\* or one of the boundary values; the second is its mirror image about 0.235
\* (0.47 minus the first) where that is an index, and the first again
\* otherwise.
\* ------------------------------------------------------------------------
ArchDen == 64

RECURSIVE Gcd(_, _)
Gcd(a, b) == IF b = 0 THEN a ELSE Gcd(b, a % b)

Ratio(n, d) == [n |-> n \div Gcd(n, d), d |-> d \div Gcd(n, d)]

BoundaryRatios ==
  {Ratio(21, 100), Ratio(26, 100), Ratio(2600001, 10000000), Ratio(47, 200),
   Ratio(37, 200), Ratio(57, 200)}

Ratios == {Ratio(n, ArchDen) : n \in 0..ArchDen} \cup BoundaryRatios

Mirror(a) ==
  IF 100 * a.n <= 47 * a.d THEN Ratio(47 * a.d - 100 * a.n, 100 * a.d) ELSE a

\* mid_pressure / foot_total_pressure
IndexOf(a) == FDiv(FromInt(a.n), FromInt(a.d))

InitArch ==
  /\ IdleAnalyzer
  /\ pc = "call"
  /\ \E a \in Ratios : call = [arg |-> <<a, Mirror(a)>>, ret |-> <<>>]

ArchCall ==
  /\ pc = "call"
  /\ LET arch_index == IndexOf(call.arg[Len(call.ret) + 1])
     IN  call' = [call EXCEPT !.ret = Append(@, [type  |-> ClassifyArch(arch_index),
                                                  score |-> CalculateArchScore(arch_index)])]
  /\ pc' = IF Len(call.ret) = 1 THEN "return" ELSE "call"
  /\ UNCHANGED <<json_data, result, fields, peer, gui>>

SpecArch == InitArch /\ [][ArchCall]_vars


\* ------------------------------------------------------------------------
\* Zone bounds (SpecZones)
\* ------------------------------------------------------------------------
Height(bb) == bb[2] - bb[1] + 1

ZonesDefined == pc = "return" /\ ~IsNone(call.arg) /\ Height(call.arg) >= 3

RowsOf(zone) == {r \in 0..(MaxRow + 1) : zone.start <= r /\ r < zone.stop}

\* C3: whenever the bounding box is at least three rows high, the returned
\* bounds satisfy hind.start < hind.stop <= mid.start < mid.stop <=
\* fore.start < fore.stop, so that every zone holds at least one row.
C3_ZoneMonotonicity ==
  ZonesDefined =>
    LET z == call.ret
    IN  /\ ~IsNone(z)
        /\ z.hind.start < z.hind.stop
        /\ z.hind.stop <= z.mid.start
        /\ z.mid.start < z.mid.stop
        /\ z.mid.stop <= z.fore.start
        /\ z.fore.start < z.fore.stop

\* C4: for a bounding box (min_row, max_row) at least three rows high the
\* zones are hind = [min_row, hind_end), mid = [hind_end, mid_end) and
\* fore = [mid_end, max_row + 1), where hind_end = min_row + floor(0.3 * height)
\* and mid_end = hind_end + floor(0.4 * height); consecutive zones share their
\* bound and the three row ranges partition the rows min_row..max_row.
C4_ZoneFormula ==
  ZonesDefined =>
    LET z        == call.ret
        min_row  == call.arg[1]
        max_row  == call.arg[2]
        height   == Height(call.arg)
        hind_end == min_row + (3 * height) \div 10
        mid_end  == hind_end + (4 * height) \div 10
    IN  /\ z = [hind |-> [start |-> min_row, stop |-> hind_end],
                mid  |-> [start |-> hind_end, stop |-> mid_end],
                fore |-> [start |-> mid_end, stop |-> max_row + 1]]
        /\ z.hind.stop = z.mid.start
        /\ z.mid.stop = z.fore.start
        /\ z.fore.stop = max_row + 1
        /\ RowsOf(z.hind) \cup RowsOf(z.mid) \cup RowsOf(z.fore) = min_row..max_row
        /\ RowsOf(z.hind) \cap RowsOf(z.mid) = {}
        /\ RowsOf(z.mid) \cap RowsOf(z.fore) = {}
        /\ RowsOf(z.hind) \cap RowsOf(z.fore) = {}

\* a ten-row box starting at row 2: floor(3.0) = 3 and floor(4.0) = 4 rows
C4_Witness ==
  /\ pc = "return"
  /\ call.arg = <<2, 11>>
  /\ call.ret.hind = [start |-> 2, stop |-> 5]
  /\ call.ret.mid = [start |-> 5, stop |-> 9]
  /\ call.ret.fore = [start |-> 9, stop |-> 12]

\* ------------------------------------------------------------------------
\* Arch classification and score (SpecArch)
\* ------------------------------------------------------------------------
Returned(i) == i \in 1..Len(call.ret)

\* C5: every arch index gets exactly one label, with boundaries that belong
\* to the lower class: index <= 0.21 is high arch, 0.21 < index <= 0.26 is
\* normal and index > 0.26 is flat (the index being n / d, the comparisons
\* are made on integers).
C5_ClassifyBoundaries ==
  \A i \in 1..2 : Returned(i) =>
    LET a == call.arg[i]
    IN  call.ret[i].type =
          IF 100 * a.n <= 21 * a.d THEN "High Arch"
          ELSE IF 100 * a.n <= 26 * a.d THEN "Normal"
          ELSE "Flat Foot"

\* the three boundary values of the claim have been classified
C5_Witness ==
  /\ pc = "return"
  /\ call.arg[1] = Ratio(26, 100)
  /\ call.ret[1].type = "Normal"
  /\ call.arg[2] = Ratio(21, 100)
  /\ call.ret[2].type = "High Arch"

\* C6: two arch indices at the same distance from the ideal 0.235 (one is
\* 0.47 minus the other, as 0.21 and 0.26 are) get the same score.
C6_ScoreSymmetry ==
  (pc = "return" /\ call.arg[2] \in {call.arg[1], Mirror(call.arg[1])}) =>
    call.ret[1].score = call.ret[2].score

\* ------------------------------------------------------------------------
\* The scenario of two blocks (Spec)
\* ------------------------------------------------------------------------
TwoBlocks == json_data \in TwoBlocksDocuments /\ Analysed

\* the rows of the raw grid that hold pressure, and twice their midpoint
PressureRows == {p[1] : p \in Positive(pressure_array)}
TwiceMidRow == MinOf(PressureRows) + MaxOf(PressureRows)

\* the CoP row is the midpoint of the blocks' rows, and each zone has the
\* same share of the left foot and of the right foot
CentredAndMirrored ==
  /\ ~IsNone(analysis_results.cop)
  /\ analysis_results.cop[1] = FDiv(FromInt(TwiceMidRow), FromInt(2))
  /\ DOMAIN analysis_results.distribution = {"LH", "LM", "LF", "RH", "RM", "RF"}
  /\ \A z \in ZoneNames :
       analysis_results.distribution[ZoneKey("L", z)]
         = analysis_results.distribution[ZoneKey("R", z)]

\* C11 as stated: for two separated square blocks of one value, one on each
\* side of the midline and on the same rows, the CoP row is the midpoint of
\* the rows and LH = RH, LM = RM, LF = RF -- whatever the value.
C11_TwoBlocksMirror == TwoBlocks => CentredAndMirrored

\* C11: for two separated square blocks of one value above the noise
\* threshold, one on each side of the midline and on the same rows, the CoP
\* row is the midpoint of the rows and LH = RH, LM = RM, LF = RF.
C11_TwoBlocksAboveThresholdMirror ==
  (TwoBlocks /\ NpMax(pressure_array) > NoiseThreshold) => CentredAndMirrored

C11_Witness ==
  /\ TwoBlocks
  /\ NpMax(pressure_array) = BlockPressure
  /\ TwiceMidRow = BlockSide + 1
  /\ analysis_results.cop[1] = FDiv(FromInt(BlockSide + 1), FromInt(2))
  /\ analysis_results.distribution["LM"] = analysis_results.distribution["RM"]
  /\ FLt(FZero, analysis_results.distribution["LM"])

\* ------------------------------------------------------------------------
\* The forced split (Spec)
\* ------------------------------------------------------------------------
MidCol == cleaned_array.cols \div 2

PressureCols == {p[2] : p \in Positive(cleaned_array)}

\* the cleaned grid is one connected component, wider than a third of the
\* columns, with pressure left of the midline column and at or right of it
OneWideStraddlingComponent ==
  /\ Separated
  /\ Len(Label(Positive(cleaned_array))) = 1
  /\ 3 * (MaxOf(PressureCols) - MinOf(PressureCols) + 1) > cleaned_array.cols
  /\ \E c \in PressureCols : c < MidCol
  /\ \E c \in PressureCols : c >= MidCol

\* C12: a cleaned grid that is one connected component wider than C/3 with
\* pressure on both sides of the midline column is split at that column:
\* both grids have pressure, the left one holds the component's cells in the
\* columns below the midline column, the right one those at or above it.
C12_ForcedSplit ==
  OneWideStraddlingComponent =>
    /\ left_foot = Masked(cleaned_array, {p \in Positive(cleaned_array) : p[2] < MidCol})
    /\ right_foot = Masked(cleaned_array, {p \in Positive(cleaned_array) : p[2] >= MidCol})
    /\ NpSum(left_foot) > 0
    /\ NpSum(right_foot) > 0

\* a component of four of the nine columns, cut into one column and three
C12_Witness ==
  /\ OneWideStraddlingComponent
  /\ MaxOf(PressureCols) - MinOf(PressureCols) + 1 = (NCols \div 2)
  /\ MinOf(PressureCols) = MidCol - 1
  /\ Positive(left_foot) # {} /\ Positive(right_foot) # {}
  /\ \A p \in Positive(left_foot) : p[2] = MidCol - 1

\* ------------------------------------------------------------------------
\* _filter_noise called directly, on the grid of a document and then on the
\* grid it returned
\* ------------------------------------------------------------------------
RawGrids ==
  {ArrayOf(PressureMatrix(d.RawPressureByRows)) :
     d \in GridDocuments \cup {ZeroDocument} \cup TwoBlocksDocuments}

InitFilter ==
  /\ IdleAnalyzer
  /\ pc = "call"
  /\ \E g \in RawGrids : call = [arg |-> g, ret |-> <<>>]

FilterCall ==
  /\ pc = "call"
  /\ call' = [call EXCEPT !.ret =
                Append(@, FilterNoise(IF @ = <<>> THEN call.arg ELSE @[Len(@)]))]
  /\ pc' = IF Len(call.ret) = 1 THEN "return" ELSE "call"
  /\ UNCHANGED <<json_data, result, fields, peer, gui>>

SpecFilter == InitFilter /\ [][FilterCall]_vars

\* C13: filtering the cleaned grid of any raw grid returns that cleaned grid
\* again, cell for cell (an all-zero cleaned grid included).
C13_FilterIdempotent == pc = "return" => call.ret[2] = call.ret[1]

\* a raw grid of which the filter removes a part and keeps a part
C13_Witness ==
  /\ pc = "return"
  /\ call.ret[1] # call.arg
  /\ Positive(call.ret[1]) # {}
  /\ call.ret[2] = call.ret[1]

\* the cells of raw above the noise threshold, and those lying in a 3x3
\* window of such cells that is inside the grid
AboveThreshold(raw) == {p \in Cells(raw) : raw.v[p] > NoiseThreshold}
InFullWindow(raw) ==
  {p \in Cells(raw) :
     \E q \in Cells(raw) : /\ p \in Window(q)
                           /\ Window(q) \subseteq Cells(raw)
                           /\ \A w \in Window(q) : raw.v[w] > NoiseThreshold}

\* C14: the cleaned grid has the shape of the raw grid, each cell is 0 or the
\* raw value, and a cell is nonzero iff it lies in a 3x3 window inside the
\* grid whose nine raw cells are all strictly above the noise threshold.
C14_CleanedCells ==
  Len(call.ret) >= 1 =>
    /\ call.ret[1].rows = call.arg.rows
    /\ call.ret[1].cols = call.arg.cols
    /\ \A p \in Cells(call.arg) :
         /\ call.ret[1].v[p] \in {0, call.arg.v[p]}
         /\ call.ret[1].v[p] # 0 <=> p \in InFullWindow(call.arg)

\* a raw grid with a surviving block, a cell above the threshold that is
\* removed for lack of a full window, and a positive cell at the threshold
C14_Witness ==
  /\ Len(call.ret) >= 1
  /\ Positive(call.ret[1]) # {}
  /\ Positive(call.ret[1]) = InFullWindow(call.arg)
  /\ \E p \in AboveThreshold(call.arg) : call.ret[1].v[p] = 0

CopCalculated ==
  /\ pc \in {"distribution", "foot_type", "results", "done"}
  /\ Size(cleaned_array) > 0

\* C15: after _calculate_cop the center of pressure is absent iff the
\* pressure of the cleaned grid sums to zero; otherwise it is the pair
\* (row_c, col_c) of the floats nearest to sum(r * grid[r, c]) / sum(grid)
\* and sum(c * grid[r, c]) / sum(grid), the sums taken over the cleaned grid.
C15_CopIsCentroid ==
  CopCalculated =>
    /\ IsNone(cop) <=> NpSum(cleaned_array) = 0
    /\ ~IsNone(cop) =>
         /\ Len(cop) = 2
         /\ IndexIs(cop[1], RowMoment(cleaned_array, Cells(cleaned_array)),
                    NpSum(cleaned_array))
         /\ IndexIs(cop[2], ColMoment(cleaned_array, Cells(cleaned_array)),
                    NpSum(cleaned_array))

\* a center of pressure of a cleaned grid whose centroid is not that of the
\* raw grid, in rows and in columns
C15_Witness ==
  /\ CopCalculated
  /\ ~IsNone(cop)
  /\ RowMoment(pressure_array, Cells(pressure_array)) * NpSum(cleaned_array)
       # RowMoment(cleaned_array, Cells(cleaned_array)) * NpSum(pressure_array)
  /\ ColMoment(pressure_array, Cells(pressure_array)) * NpSum(cleaned_array)
       # ColMoment(cleaned_array, Cells(cleaned_array)) * NpSum(pressure_array)
  /\ ~IndexIs(cop[1], RowMoment(pressure_array, Cells(pressure_array)),
              NpSum(pressure_array))

Malformed ==
  json_data \in {MissingFieldDocument} \cup NonNumericDocuments \cup RaggedDocuments

C17_FailureExplained ==
  pc = "done" =>
    /\ result = "False" => ~IsNone(error_message)
    /\ result = "True" => IsNone(error_message)

\* a non-empty rectangular grid of non-negative integers
WellFormed(data) ==
  /\ ~IsNone(data.RawPressureByRows)
  /\ \A x \in Range(data.RawPressureByRows) :
       /\ IsNumber(x.key)
       /\ x.cells # <<>>
       /\ \A j \in 1..Len(x.cells) : IsNumber(x.cells[j])
       /\ \A y \in Range(data.RawPressureByRows) : Len(y.cells) = Len(x.cells)

\* C18: on a well-formed document run_analysis goes through every stage,
\* returns success without an error message, and leaves analysis_results
\* with exactly the keys distribution, foot_types, final_bbox, zones, cop.
C18_WellFormedSucceeds ==
  WellFormed(json_data) =>
    /\ IsNone(error_message)
    /\ pc = "done" =>
         /\ result = "True"
         /\ DOMAIN analysis_results =
              {"distribution", "foot_types", "final_bbox", "zones", "cop"}
         /\ analysis_results.distribution = distribution
         /\ analysis_results.foot_types = foot_types
         /\ analysis_results.final_bbox = final_bbox
         /\ analysis_results.cop = cop

\* a grid with pressure that the noise filter wipes out: success with every
\* entry absent or empty
C18_Witness ==
  /\ WellFormed(json_data)
  /\ Analysed
  /\ NpSum(pressure_array) > 0
  /\ NpSum(cleaned_array) = 0
  /\ IsNone(analysis_results.cop)
  /\ IsNone(analysis_results.zones)
  /\ IsNone(analysis_results.final_bbox)
  /\ analysis_results.distribution = None
  /\ analysis_results.foot_types = None

Loaded == pc # "load" /\ WellFormed(json_data)

\* the number of the rows of the document whose index is below that of row x
RowsBelow(x) ==
  Cardinality({y \in Range(json_data.RawPressureByRows) : ParseInt(y.key) < ParseInt(x.key)})

\* C19: the rows of the loaded grid are in the order of the integers in the
\* row identifiers: the row of index i comes before the row of index j for
\* i < j, whatever the order of the document and of the identifiers as text.
C19_RowsByIndex ==
  Loaded =>
    \A x \in Range(json_data.RawPressureByRows) : \A c \in 1..Len(x.cells) :
      pressure_array.v[<<RowsBelow(x), c - 1>>] = ParseInt(x.cells[c])

\* the document giving Row_10, Row_2, Row_1 in this order, loaded as the
\* rows of 1, 2, 10
C19_Witness ==
  /\ Loaded
  /\ json_data \in ShuffledDocuments
  /\ json_data.RawPressureByRows[1].key = Text(10)
  /\ json_data.RawPressureByRows[2].key = Text(2)
  /\ pressure_array.v[<<0, 0>>] = 1
  /\ pressure_array.v[<<1, 0>>] = 2
  /\ pressure_array.v[<<2, 0>>] = 10

\* ------------------------------------------------------------------------
\* Two analyzers, one per request, their stages interleaved (SpecPair)
\* ------------------------------------------------------------------------
RightFootDocument ==
  Document(NRows, NCols, Rect(0, NRows - 1, NCols - 3, NCols - 1, MaxPressure), NoRect)

BothFeetDocument ==
  Document(NRows, NCols, Rect(0, NRows - 1, 0, 2, BlockPressure),
           Rect(1, NRows - 1, NCols - 3, NCols - 1, MaxPressure))

PairDocuments ==
  {FootDocument, RightFootDocument, BothFeetDocument, MissingFieldDocument}

\* FootPressureAnalyzer(json_data): the analyzer of a request, not yet run
Analyzer(data) ==
  [json_data |-> data, pc |-> "load", result |-> "running",
   pressure_array |-> EmptyArray, cleaned_array |-> EmptyArray,
   left_foot |-> EmptyArray, right_foot |-> EmptyArray,
   distribution |-> None, foot_types |-> None, final_bbox |-> None,
   cop |-> None, analysis_results |-> None, error_message |-> None]

\* the analyzer whose run_analysis is running, as a record
Running ==
  [json_data |-> json_data, pc |-> pc, result |-> result,
   pressure_array |-> pressure_array, cleaned_array |-> cleaned_array,
   left_foot |-> left_foot, right_foot |-> right_foot,
   distribution |-> distribution, foot_types |-> foot_types,
   final_bbox |-> final_bbox, cop |-> cop,
   analysis_results |-> analysis_results, error_message |-> error_message]

InitPair ==
  /\ json_data \in PairDocuments
  /\ pc = "load"
  /\ result = "running"
  /\ InitFields
  /\ call = None
  /\ \E data \in PairDocuments : peer = Analyzer(data)
  /\ InitApp

\* a switch in which the two analyzers go on with one distribution dict
SwitchSharing ==
  /\ ~IsNone(peer)
  /\ peer' = Running
  /\ json_data' = peer.json_data
  /\ pc' = peer.pc
  /\ result' = peer.result
  /\ pressure_array' = peer.pressure_array
  /\ cleaned_array' = peer.cleaned_array
  /\ left_foot' = peer.left_foot
  /\ right_foot' = peer.right_foot
  /\ distribution' = distribution
  /\ foot_types' = peer.foot_types
  /\ final_bbox' = peer.final_bbox
  /\ cop' = peer.cop
  /\ analysis_results' = peer.analysis_results
  /\ error_message' = peer.error_message
  /\ UNCHANGED <<call, gui>>

\* the scheduler goes from the request of one analyzer to that of the other:
\* each analyzer keeps the fields that its __init__ created
Switch ==
  /\ ~IsNone(peer)
  /\ peer' = Running
  /\ json_data' = peer.json_data
  /\ pc' = peer.pc
  /\ result' = peer.result
  /\ pressure_array' = peer.pressure_array
  /\ cleaned_array' = peer.cleaned_array
  /\ left_foot' = peer.left_foot
  /\ right_foot' = peer.right_foot
  /\ distribution' = peer.distribution
  /\ foot_types' = peer.foot_types
  /\ final_bbox' = peer.final_bbox
  /\ cop' = peer.cop
  /\ analysis_results' = peer.analysis_results
  /\ error_message' = peer.error_message
  /\ UNCHANGED <<call, gui>>

NextPair ==
  \/ Load
  \/ FilterNoiseStage
  \/ CalculateCop
  \/ CalculatePressureDistribution
  \/ AnalyzeFootType
  \/ PrepareFinalResults
  \/ Switch

SpecPair == InitPair /\ [][NextPair]_vars

\* run_analysis of a fresh analyzer run alone on the document: the value it
\* returns and the analysis_results it leaves
AnalysisAlone(data) ==
  With(CHOOSE a \in LoadData(data) : TRUE, LAMBDA pressure :
    IF Size(pressure) = 0 THEN [result |-> "False", analysis_results |-> None]
    ELSE With(FilterNoise(pressure), LAMBDA cleaned :
         With(PressureDistribution(cleaned, None, None), LAMBDA d :
           [result |-> "True",
            analysis_results |->
              FinalResults(d.distribution,
                           FootTypes(d.final_bbox, d.left_foot, d.right_foot, None),
                           d.final_bbox, Cop(cleaned))])))

BothDone == ~IsNone(peer) /\ pc = "done" /\ peer.pc = "done"

Outcome(analyzer) ==
  [result |-> analyzer.result, analysis_results |-> analyzer.analysis_results]

\* C20: when two analyzers have run with their stages interleaved in any
\* order, each has returned the value and holds the analysis_results that its
\* document gives when analysed alone.
C20_Independent ==
  BothDone =>
    /\ Outcome(Running) = AnalysisAlone(json_data)
    /\ Outcome(peer) = AnalysisAlone(peer.json_data)

\* a left-foot and a right-foot request, both done after interleaved stages:
\* each result has the three entries of its own side only
C20_Witness ==
  /\ BothDone
  /\ json_data = FootDocument
  /\ peer.json_data = RightFootDocument
  /\ DOMAIN analysis_results.distribution = {"LH", "LM", "LF"}
  /\ DOMAIN peer.analysis_results.distribution = {"RH", "RM", "RF"}

\* ------------------------------------------------------------------------
\* The two paths of _separate_feet (Spec)
\* ------------------------------------------------------------------------
SeparatedWithPressure == Separated /\ NpSum(cleaned_array) > 0

Components == Label(Positive(cleaned_array))

\* the feet are the cleaned grid cut at the midline, both sides with pressure
MidlineCut ==
  /\ left_foot = Masked(cleaned_array, {p \in Positive(cleaned_array) : p[2] < MidCol})
  /\ right_foot = Masked(cleaned_array, {p \in Positive(cleaned_array) : p[2] >= MidCol})
  /\ NpSum(left_foot) > 0
  /\ NpSum(right_foot) > 0

\* every component is, with its values, in one foot and absent from the other
WholeComponents ==
  /\ \A p \in Cells(cleaned_array) : left_foot.v[p] + right_foot.v[p] = cleaned_array.v[p]
  /\ \A i \in 1..Len(Components) :
       \/ \A p \in Components[i] : right_foot.v[p] = 0
       \/ \A p \in Components[i] : left_foot.v[p] = 0

\* the test of the forced split on the single component, max_col standing
\* for the column at distance last from the largest occupied column
ForcedSplitTest(last) ==
  /\ Len(Components) = 1
  /\ MinOf(PressureCols) < MidCol
  /\ MidCol < MaxOf(PressureCols) + last
  /\ 3 * (MaxOf(PressureCols) + last - MinOf(PressureCols)) > cleaned_array.cols
  /\ \E p \in Positive(cleaned_array) : p[2] < MidCol
  /\ \E p \in Positive(cleaned_array) : p[2] >= MidCol

CentroidLeftOfMid(comp) ==
  ColMoment(cleaned_array, comp) < MidCol * SumOver(cleaned_array, comp)
CentroidOnMid(comp) ==
  ColMoment(cleaned_array, comp) = MidCol * SumOver(cleaned_array, comp)

\* the component is in the foot with its values, and absent from the other
WholeIn(comp, foot, other) ==
  \A p \in comp : foot.v[p] = cleaned_array.v[p] /\ other.v[p] = 0

\* C22: when the forced split is not taken, every component goes as a whole
\* and with its values to the left foot if its pressure-weighted centroid
\* column is strictly less than mid = C // 2, and to the right foot otherwise
\* (a centroid on mid included).
C22_WholeComponentsByCentroid ==
  (SeparatedWithPressure /\ ~ForcedSplitTest(1)) =>
    \A i \in 1..Len(Components) :
      IF CentroidLeftOfMid(Components[i])
      THEN WholeIn(Components[i], left_foot, right_foot)
      ELSE WholeIn(Components[i], right_foot, left_foot)

\* a component with cells on both sides of the midline and its centroid on
\* it, whole in the right foot
C22_Witness ==
  /\ SeparatedWithPressure
  /\ ~ForcedSplitTest(1)
  /\ \E i \in 1..Len(Components) :
       /\ CentroidOnMid(Components[i])
       /\ \E p \in Components[i] : p[2] < MidCol
       /\ WholeIn(Components[i], right_foot, left_foot)
  /\ NpSum(right_foot) = NpSum(cleaned_array)

\* ------------------------------------------------------------------------
\* The bounding box and the distribution (Spec)
\* ------------------------------------------------------------------------
\* the rows in which a foot has a nonzero cell
FootRows(foot) == {p[1] : p \in Positive(foot)}
RowsOfFeet == FootRows(left_foot) \cup FootRows(right_foot)

\* C23: after the separation the bounding box is absent iff neither foot has
\* pressure; otherwise it is (min_row, max_row), the smallest and the largest
\* row holding a nonzero cell of a foot, so min_row <= max_row, both rows
\* hold a nonzero cell and every nonzero cell of the cleaned grid lies in
\* rows min_row .. max_row.
C23_BoundingBox ==
  Separated =>
    /\ IsNone(final_bbox) <=> RowsOfFeet = {}
    /\ ~IsNone(final_bbox) =>
         /\ Len(final_bbox) = 2
         /\ final_bbox[1] \in RowsOfFeet /\ \A r \in RowsOfFeet : final_bbox[1] <= r
         /\ final_bbox[2] \in RowsOfFeet /\ \A r \in RowsOfFeet : r <= final_bbox[2]
         /\ final_bbox[1] <= final_bbox[2]
         /\ \A p \in Positive(cleaned_array) : final_bbox[1] <= p[1] /\ p[1] <= final_bbox[2]

\* two feet of different extents: the box starts with the right foot and
\* ends with the left one
C23_Witness ==
  /\ Separated
  /\ FootRows(left_foot) # {} /\ FootRows(right_foot) # {}
  /\ MinOf(FootRows(right_foot)) < MinOf(FootRows(left_foot))
  /\ MaxOf(FootRows(right_foot)) < MaxOf(FootRows(left_foot))
  /\ final_bbox = <<MinOf(FootRows(right_foot)), MaxOf(FootRows(left_foot))>>

\* ------------------------------------------------------------------------
\* The stages after the noise filter, called on an analyzer whose cleaned
\* grid is given (SpecStages): the grids of the documents as they are, and
\* grids with pressure on one or two rows only
\* ------------------------------------------------------------------------
ThinBlocks ==
  {Rect(r, r + h, c, c + 2, BlockPressure) :
     r \in {0, NRows - 2}, h \in {0, 1}, c \in {0, NCols - 3}}

ThinDocuments ==
  {Document(NRows, NCols, a, b) : a \in ThinBlocks, b \in ThinBlocks \cup {NoRect}}

StageGrids ==
  {ArrayOf(PressureMatrix(d.RawPressureByRows)) : d \in GridDocuments \cup ThinDocuments}

InitStages ==
  /\ json_data = [RawPressureByRows |-> None]
  /\ peer = None
  /\ InitApp
  /\ call = None
  /\ result = "running"
  /\ pc = "distribution"
  /\ cleaned_array \in StageGrids
  /\ pressure_array = cleaned_array
  /\ left_foot = EmptyArray
  /\ right_foot = EmptyArray
  /\ distribution = None
  /\ foot_types = None
  /\ final_bbox = None
  /\ cop = None
  /\ analysis_results = None
  /\ error_message = None

NextStages ==
  \/ CalculatePressureDistribution
  \/ AnalyzeFootType
  \/ PrepareFinalResults

SpecStages == InitStages /\ [][NextStages]_vars

\* the number of rows of the bounding box (0 when it is absent)
BoxHeight == IF IsNone(final_bbox) THEN 0 ELSE Height(final_bbox)

SideKeys(side) == {ZoneKey(side.prefix, z) : z \in ZoneNames}

\* C24: after _calculate_pressure_distribution a side has entries in the
\* distribution iff the bounding box has at least 3 rows and the foot of the
\* side has pressure; it then has its three keys, a zone without pressure
\* with the value 0; with fewer than 3 rows the distribution is empty.
C24_DistributionEntries ==
  Separated =>
    /\ \A side \in Sides :
         /\ SideKeys(side) \cap DOMAIN distribution # {}
              <=> (BoxHeight >= 3 /\ NpSum(FootOf(side)) > 0)
         /\ SideKeys(side) \cap DOMAIN distribution # {} =>
              /\ SideKeys(side) \subseteq DOMAIN distribution
              /\ \A zones \in {GetFootZoneIndices(final_bbox)} : \A z \in ZoneNames :
                   ZoneSum(FootOf(side), zones[z]) = 0
                     <=> distribution[ZoneKey(side.prefix, z)] = FZero
    /\ DOMAIN distribution \subseteq UNION {SideKeys(side) : side \in Sides}
    /\ BoxHeight < 3 => distribution = None

\* a box of 3 rows with the left foot only: LH is present with the value 0
\* (the hindfoot zone has no row) and the right side has no entry
C24_Witness ==
  /\ Separated
  /\ BoxHeight = 3
  /\ NpSum(left_foot) > 0
  /\ DOMAIN distribution = {"LH", "LM", "LF"}
  /\ distribution["LH"] = FZero
  /\ distribution["LM"] # FZero

\* the side has an entry of foot_types that is not the no-data entry
Classified(side) ==
  /\ side.name \in DOMAIN analysis_results.foot_types
  /\ analysis_results.foot_types[side.name].type # NoData.type

\* C25: in the results of a successful analysis a side has a classified foot
\* type iff it has entries in the distribution, and then its arch index
\* times 100 is its midfoot percentage.
C25_IndexIsMidfootShare ==
  Analysed =>
    \A side \in Sides :
      /\ Classified(side) <=> SideKeys(side) \cap DOMAIN analysis_results.distribution # {}
      /\ Classified(side) =>
           FMul(analysis_results.foot_types[side.name].value, FromInt(100))
             = analysis_results.distribution[ZoneKey(side.prefix, "mid")]

\* both feet classified, with different midfoot shares that are neither 0
\* nor 100
C25_Witness ==
  /\ Analysed
  /\ \A side \in Sides : Classified(side)
  /\ analysis_results.distribution["LM"] # analysis_results.distribution["RM"]
  /\ \A side \in Sides :
       /\ FLt(FZero, analysis_results.foot_types[side.name].value)
       /\ FLt(analysis_results.foot_types[side.name].value, FromInt(1))

\* ------------------------------------------------------------------------
\* get_visualization_data called after run_analysis has returned (SpecVis)
\* ------------------------------------------------------------------------
\* ndarray.tolist(): the list of the rows (the empty list for np.array([]))
ToList(a) == [i \in 1..a.rows |-> [j \in 1..a.cols |-> a.v[<<i - 1, j - 1>>]]]

\* the entries of VISUALIZATION copied into the descriptor
VisualizationConfig ==
  [figsize |-> <<8, 10>>, cmap |-> "plasma", interpolation |-> "bilinear",
   gaussian_sigma |-> Lit(1, 2)]

\* get_visualization_data: None, or the descriptor in native types
VisualizationData(error, cleaned, results) ==
  IF ~IsNone(error) THEN None
  ELSE [pressure_data |-> ToList(cleaned),
        analysis_results |-> results,
        config |-> VisualizationConfig]

\* analyzer.get_visualization_data(), after run_analysis
GetVisualizationData ==
  /\ pc = "done"
  /\ call' = [arg |-> None,
              ret |-> VisualizationData(error_message, cleaned_array, analysis_results)]
  /\ pc' = "visualized"
  /\ UNCHANGED <<json_data, result, fields, peer, gui>>

NextVis ==
  \/ Load
  \/ FilterNoiseStage
  \/ CalculateCop
  \/ CalculatePressureDistribution
  \/ AnalyzeFootType
  \/ PrepareFinalResults
  \/ GetVisualizationData

SpecVis == Init /\ [][NextVis]_vars

\* C26: get_visualization_data returns None after run_analysis has returned
\* failure, and after success a descriptor with the cleaned grid and the
\* analysis results.
C26_NoDescriptorAfterFailure ==
  pc = "visualized" =>
    /\ result = "False" => IsNone(call.ret)
    /\ result = "True" =>
         /\ ~IsNone(call.ret)
         /\ call.ret.pressure_data = ToList(cleaned_array)
         /\ call.ret.analysis_results = analysis_results

\* ------------------------------------------------------------------------
\* POST /analyze of the web backend (SpecRequest).  A request is the name of
\* the uploaded file (a sequence of characters), its contents (bytes that
\* json.loads decodes to a value, or not) and what matplotlib does when the
\* image is rendered.  Details and messages are tuples of words.
\* ------------------------------------------------------------------------
JsonSuffix == <<".", "j", "s", "o", "n">>

\* str.endswith
EndsWith(name, suffix) ==
  /\ Len(name) >= Len(suffix)
  /\ SubSeq(name, Len(name) - Len(suffix) + 1, Len(name)) = suffix

FileNames ==
  {<<"a">> \o JsonSuffix, JsonSuffix, <<"a", ".", "t", "x", "t">>, <<>>,
   <<"a", ".", "J", "S", "O", "N">>, <<"a">> \o JsonSuffix \o <<".", "b", "a", "k">>,
   <<"j", "s", "o", "n">>}

\* the decoded value None stands for a JSON value that is not an object
FileContents ==
  {[decodable |-> FALSE, value |-> None]}
  \cup {[decodable |-> TRUE, value |-> d] :
          d \in PairDocuments \cup {None, ZeroDocument}
                \cup {r \in RaggedDocuments : Len(r.RawPressureByRows[1].cells) < NCols}
                \cup {n \in NonNumericDocuments : n.RawPressureByRows[1].cells[1] = <<Letter>>}}

\* savefig gives the image, savefig raises (caught: None), or an earlier
\* call of matplotlib raises
Renderings == {"image", "savefig raises", "raises"}

Requests ==
  {[filename |-> f, contents |-> c, rendering |-> r] :
     f \in FileNames, c \in FileContents, r \in Renderings}

BadFileType == [status |-> 400, detail |-> <<"handler", "wrong file type">>]
Unexpected == [status |-> 500, detail |-> <<"handler", "unexpected error">>]
NoVisualization == [status |-> 500, detail |-> <<"handler", "no visualization data">>]
NoImage == [status |-> 500, detail |-> <<"handler", "no image">>]
UnknownError == <<"handler", "unknown analysis error">>
NoDataMessage == <<"run_analysis", "no data or wrong format">>

\* the handlers of the try statement with except Exception alone
RaisedAsGeneric(exc) == Unexpected

\* the two handlers of the try statement: an HTTPException is raised again
\* as it is, any other exception becomes the generic 500
Raised(exc) == IF "status" \in DOMAIN exc THEN exc ELSE Unexpected

\* run_analysis of the web analyzer on a loaded array: the analyzer after
\* the call
WebRun(data, pressure) ==
  IF Size(pressure) = 0
  THEN [Analyzer(data) EXCEPT !.pc = "done", !.result = "False",
                              !.pressure_array = pressure,
                              !.error_message = NoDataMessage]
  ELSE IF IsObjectArray(pressure)
  THEN [Analyzer(data) EXCEPT !.pc = "done", !.result = "False",
                              !.pressure_array = pressure,
                              !.error_message = ErrorMessage("TypeError")]
  ELSE With(FilterNoise(pressure), LAMBDA cleaned :
       With(PressureDistribution(cleaned, None, None), LAMBDA d :
       With(FootTypes(d.final_bbox, d.left_foot, d.right_foot, None), LAMBDA types :
         [Analyzer(data) EXCEPT
            !.pc = "done", !.result = "True",
            !.pressure_array = pressure, !.cleaned_array = cleaned,
            !.cop = Cop(cleaned),
            !.left_foot = d.left_foot, !.right_foot = d.right_foot,
            !.final_bbox = d.final_bbox, !.distribution = d.distribution,
            !.foot_types = types,
            !.analysis_results =
               FinalResults(d.distribution, types, d.final_bbox, Cop(cleaned))])))

\* FootPressureAnalyzer(json_data).run_analysis(): the analyzers it can leave
WebRunAnalysis(data) ==
  IF IsNone(data)
  THEN {[Analyzer(data) EXCEPT !.pc = "done", !.result = "False",
                               !.error_message = ErrorMessage("AttributeError")]}
  ELSE {WebRun(data, pressure) : pressure \in LoadData(data)}

InitRequest ==
  /\ json_data = None
  /\ peer = None
  /\ InitApp
  /\ result = "running"
  /\ InitFields
  /\ pc = "filename"
  /\ \E request \in Requests : call = [arg |-> request, ret |-> None]

\* line 81: the check of the file name
CheckFileName ==
  /\ pc = "filename"
  /\ IF EndsWith(call.arg.filename, JsonSuffix)
     THEN pc' = "read" /\ call' = call
     ELSE pc' = "sent" /\ call' = [call EXCEPT !.ret = Raised(BadFileType)]
  /\ UNCHANGED <<json_data, result, fields, peer, gui>>

\* lines 84-88: file.read() and json.loads
ReadFile ==
  /\ pc = "read"
  /\ IF call.arg.contents.decodable
     THEN /\ json_data' = call.arg.contents.value
          /\ pc' = "analyze"
          /\ call' = call
     ELSE /\ json_data' = json_data
          /\ pc' = "sent"
          /\ call' = [call EXCEPT !.ret = Raised([exception |-> "JSONDecodeError"])]
  /\ UNCHANGED <<result, fields, peer, gui>>

\* lines 90-94: the analyzer of the request and its run_analysis
RunAnalysis ==
  /\ pc = "analyze"
  /\ \E a \in WebRunAnalysis(json_data) :
       /\ result' = a.result
       /\ pressure_array' = a.pressure_array
       /\ cleaned_array' = a.cleaned_array
       /\ left_foot' = a.left_foot
       /\ right_foot' = a.right_foot
       /\ distribution' = a.distribution
       /\ foot_types' = a.foot_types
       /\ final_bbox' = a.final_bbox
       /\ cop' = a.cop
       /\ analysis_results' = a.analysis_results
       /\ error_message' = a.error_message
       /\ IF a.result = "True"
          THEN pc' = "visualize" /\ call' = call
          ELSE /\ pc' = "sent"
               /\ call' = [call EXCEPT !.ret =
                     Raised([status |-> 500,
                             detail |-> IF IsNone(a.error_message) THEN UnknownError
                                        ELSE a.error_message])]
  /\ UNCHANGED <<json_data, peer, gui>>

\* lines 96-108: the descriptor, the image and the response
Respond ==
  /\ pc = "visualize"
  /\ pc' = "sent"
  /\ call' = [call EXCEPT !.ret =
       IF ~IsNone(error_message) THEN Raised(NoVisualization)
       ELSE IF call.arg.rendering = "raises" THEN Raised([exception |-> "matplotlib"])
       ELSE IF call.arg.rendering = "savefig raises" THEN Raised(NoImage)
       ELSE [status |-> 200,
             body |-> [analysis_results |-> analysis_results,
                       image_base64 |-> <<"png", ToList(cleaned_array)>>]]]
  /\ UNCHANGED <<json_data, result, fields, peer, gui>>

NextRequest ==
  \/ CheckFileName
  \/ ReadFile
  \/ RunAnalysis
  \/ Respond

SpecRequest == InitRequest /\ [][NextRequest]_vars

\* the names of FileNames that end in '.json'
JsonNames == {<<"a", ".", "j", "s", "o", "n">>, <<".", "j", "s", "o", "n">>}

Sent == pc = "sent"

\* C27: a request ends with status 400 iff the file name does not end in
\* '.json', nothing being read or analysed then; with status 200 and a body
\* of analysis_results and image_base64 iff the name is right, the contents
\* decode, run_analysis succeeds and the image is rendered; with status 500
\* otherwise, the detail being the analyzer's error message when
\* run_analysis failed; the 400 and the 500 raised by the handler keep their
\* status and detail.
C27_RequestOutcome ==
  Sent =>
    /\ call.ret.status \in {200, 400, 500}
    /\ call.ret.status = 400 <=> call.arg.filename \notin JsonNames
    /\ call.ret.status = 400 =>
         /\ call.ret = BadFileType
         /\ IsNone(json_data)
         /\ result = "running"
    /\ call.ret.status = 200 <=>
         /\ call.arg.filename \in JsonNames
         /\ call.arg.contents.decodable
         /\ result = "True"
         /\ call.arg.rendering = "image"
    /\ call.ret.status = 200 =>
         /\ DOMAIN call.ret.body = {"analysis_results", "image_base64"}
         /\ call.ret.body.analysis_results = analysis_results
         /\ ~IsNone(call.ret.body.image_base64)
    /\ (call.ret.status = 500 /\ result = "False") =>
         /\ ~IsNone(error_message)
         /\ call.ret.detail = error_message
    /\ (call.ret.status = 500 /\ result = "True" /\ call.arg.rendering = "savefig raises") =>
         call.ret = NoImage

\* a request with a '.json' file of a document without pressure data: 500
\* with the message of the analyzer
C27_Witness ==
  /\ Sent
  /\ call.arg.filename \in JsonNames
  /\ call.arg.contents.value = MissingFieldDocument
  /\ call.ret = [status |-> 500, detail |-> NoDataMessage]

\* ------------------------------------------------------------------------
\* FootPressureApp (gui_app.py): the tkinter front end.  The main loop runs
\* one handler at a time; a worker thread runs beside it.
\* ------------------------------------------------------------------------
\* runs the user starts
MaxRuns == 2
\* messages the engine logs during one run
EngineMessages == 2
\* files chosen between two runs
MaxBrowses == 1
\* for _ in range(50)
PollBatch == 50

\* a queued message: the run during which it was put (0 before the first
\* run), the code that put it, and its number among the messages of that code
Message(run, source, n) == <<run, source, n>>

\* a callback scheduled with after()
Callback(func, args) == [func |-> func, args |-> args]

PollCallback == Callback("_process_log_queue", <<>>)

\* _process_log_queue: at most PollBatch messages leave the queue for the
\* widget; the method schedules itself again
Drained(queue) == SubSeq(queue, 1, Min2(PollBatch, Len(queue)))

Remaining(queue) == SubSeq(queue, Min2(PollBatch, Len(queue)) + 1, Len(queue))

\* the three lines that run_analysis and on_analysis_complete log
Banner(run, source) ==
  <<Message(run, source, 1), Message(run, source, 2), Message(run, source, 3)>>

\* display_matplotlib_figure: VISUALIZATION has no key 'CMAP', the KeyError
\* is caught and logged
DisplayMatplotlibFigure(run) == <<Message(run, "display_matplotlib_figure", 1)>>

Outcomes == {"success", "failure", "raises"}

\* what _threaded_analysis logs after the engine, by the way the analysis ended
WorkerMessages(run, outcome) ==
  IF outcome = "success"
  THEN <<Message(run, "_threaded_analysis", 1), Message(run, "_threaded_analysis", 2)>>
  ELSE IF outcome = "failure"
  THEN <<Message(run, "_threaded_analysis", 3)>>
  ELSE <<Message(run, "_threaded_analysis", 1), Message(run, "_threaded_analysis", 3)>>

\* a worker that schedules the callback only when the analysis succeeded
ScheduledOnSuccess(run, outcome) ==
  IF outcome = "success"
  THEN {Callback("on_analysis_complete", <<run, FALSE>>)}
  ELSE {}

\* self.after(0, self.on_analysis_complete, vis_data, error) at the end of
\* the try block and in the except block; the second argument tells whether
\* error is set
ScheduledBy(run, outcome) ==
  {Callback("on_analysis_complete", <<run, outcome # "success">>)}

InitGui ==
  /\ json_data = [RawPressureByRows |-> None]
  /\ pc = "mainloop"
  /\ result = "running"
  /\ InitFields
  /\ call = None
  /\ peer = None
  /\ InitApp

analyzer == <<json_data, pc, result, fields, call, peer>>

Browses == {i \in DOMAIN log_queue : log_queue[i][2] = "browse_file"}

\* browse_file: the dialog returns a path or the empty string
BrowseFile ==
  /\ btn_browse = "normal"
  /\ Cardinality(Browses) < MaxBrowses
  /\ \E file_path \in {"", "data.json"} :
       IF file_path # ""
       THEN /\ input_path' = file_path
            /\ log_queue' = Append(log_queue,
                 Message(Len(threads), "browse_file", Cardinality(Browses) + 1))
       ELSE UNCHANGED <<input_path, log_queue>>
  /\ UNCHANGED <<analyzer, btn_run, btn_browse, log_text, log_poller, after_calls,
                 threads>>

\* a click on the run button that leaves both buttons enabled
AppRunAnalysisKeepingButtons ==
  /\ btn_run = "normal"
  /\ Len(threads) < MaxRuns
  /\ IF input_path = ""
     THEN UNCHANGED gui
     ELSE LET run == Len(threads) + 1
              queue == log_queue \o Banner(run, "run_analysis")
          IN  /\ log_text' = Drained(queue)
              /\ log_queue' = Remaining(queue)
              /\ after_calls' = after_calls \cup {PollCallback}
              /\ log_poller' = PollCallback
              /\ threads' = Append(threads, [pc |-> "run_analysis", logged |-> 0,
                                             scheduled |-> 0, completed |-> 0])
              /\ UNCHANGED <<input_path, btn_run, btn_browse>>
  /\ UNCHANGED analyzer

\* run_analysis, the command of the run button: a disabled button does not
\* call it
AppRunAnalysis ==
  /\ btn_run = "normal"
  /\ Len(threads) < MaxRuns
  /\ IF input_path = ""
     THEN UNCHANGED gui
     ELSE LET run == Len(threads) + 1
              queue == log_queue \o Banner(run, "run_analysis")
          IN  /\ log_text' = Drained(queue)
              /\ log_queue' = Remaining(queue)
              /\ after_calls' = after_calls \cup {PollCallback}
              /\ log_poller' = PollCallback
              /\ btn_run' = "disabled"
              /\ btn_browse' = "disabled"
              /\ threads' = Append(threads, [pc |-> "run_analysis", logged |-> 0,
                                             scheduled |-> 0, completed |-> 0])
              /\ UNCHANGED input_path
  /\ UNCHANGED analyzer

\* the engine of worker `run` logs through ui_logger
EngineLog(run) ==
  /\ threads[run].pc = "run_analysis"
  /\ threads[run].logged < EngineMessages
  /\ log_queue' = Append(log_queue, Message(run, "engine", threads[run].logged + 1))
  /\ threads' = [threads EXCEPT ![run].logged = @ + 1]
  /\ UNCHANGED <<analyzer, input_path, btn_run, btn_browse, log_text, log_poller,
                 after_calls>>

\* _threaded_analysis from the return of analyzer.run_analysis() to its end
ThreadedAnalysis(run, outcome) ==
  /\ threads[run].pc = "run_analysis"
  /\ log_queue' = log_queue \o WorkerMessages(run, outcome)
  /\ after_calls' = after_calls \cup ScheduledBy(run, outcome)
  /\ threads' = [threads EXCEPT ![run].pc = "returned",
                                ![run].scheduled = @ + Cardinality(ScheduledBy(run, outcome))]
  /\ UNCHANGED <<analyzer, input_path, btn_run, btn_browse, log_text, log_poller>>

Worker == \E run \in DOMAIN threads :
            \/ EngineLog(run)
            \/ \E outcome \in Outcomes : ThreadedAnalysis(run, outcome)

\* the main loop runs the scheduled _process_log_queue
ProcessLogQueue ==
  /\ PollCallback \in after_calls
  /\ log_text' = log_text \o Drained(log_queue)
  /\ log_queue' = Remaining(log_queue)
  /\ log_poller' = PollCallback
  /\ UNCHANGED <<analyzer, input_path, btn_run, btn_browse, after_calls, threads>>

\* the main loop runs a scheduled on_analysis_complete
OnAnalysisComplete ==
  \E cb \in after_calls :
    /\ cb.func = "on_analysis_complete"
    /\ LET run == cb.args[1]
           error == cb.args[2]
       IN  /\ after_calls' = IF IsNone(log_poller)
                             THEN after_calls \ {cb}
                             ELSE after_calls \ {cb, log_poller}
           /\ log_poller' = None
           /\ log_queue' = log_queue \o Banner(run, "on_analysis_complete")
                             \o (IF error THEN <<>> ELSE DisplayMatplotlibFigure(run))
           /\ btn_run' = "normal"
           /\ btn_browse' = "normal"
           /\ threads' = [threads EXCEPT ![run].completed = @ + 1]
    /\ UNCHANGED <<analyzer, input_path, log_text>>

MainLoop == ProcessLogQueue \/ OnAnalysisComplete

NextGui ==
  \/ BrowseFile
  \/ AppRunAnalysis
  \/ Worker
  \/ MainLoop

SpecGui == InitGui /\ [][NextGui]_vars

\* the worker thread and the main loop keep running; the user need not act
SpecGuiFair == SpecGui /\ WF_vars(Worker) /\ WF_vars(MainLoop)

\* a worker is in flight from its start to the end of the on_analysis_complete
\* that it scheduled
InFlight(run) == threads[run].completed = 0

WorkersInFlight == {run \in DOMAIN threads : InFlight(run)}

\* C28: at most one worker thread is in flight at any time, and while one is
\* in flight both the run button and the browse button are disabled
C28_OneWorkerInFlight ==
  /\ Cardinality(WorkersInFlight) <= 1
  /\ WorkersInFlight # {} => btn_run = "disabled" /\ btn_browse = "disabled"

\* the second worker has returned and its callback is still to run, after the
\* first run was completed and the buttons were enabled again
C28_Witness ==
  /\ Len(threads) = 2
  /\ WorkersInFlight = {2}
  /\ threads[2].pc = "returned"
  /\ Callback("on_analysis_complete", <<2, TRUE>>) \in after_calls
  /\ btn_run = "disabled"
  /\ btn_browse = "disabled"

\* on_analysis_complete has run for worker `run` and left both buttons enabled
Completed(run) ==
  /\ run \in DOMAIN threads
  /\ threads[run].scheduled = 1
  /\ threads[run].completed = 1
  /\ btn_run = "normal"
  /\ btn_browse = "normal"

\* a worker schedules on_analysis_complete when it ends and never twice, and
\* the callback runs no more often than it was scheduled
ScheduledOnce ==
  \A run \in DOMAIN threads :
    /\ threads[run].scheduled = (IF threads[run].pc = "returned" THEN 1 ELSE 0)
    /\ threads[run].completed <= threads[run].scheduled

Sources == {"browse_file", "run_analysis", "engine", "_threaded_analysis",
            "on_analysis_complete", "display_matplotlib_figure"}

Messages == {Message(run, source, n) : run \in 0..MaxRuns, source \in Sources, n \in 1..3}

\* the widget shows message m in the log of the run during which it was put:
\* run_analysis empties the widget when a run starts
ShownInItsRun(m) ==
  /\ m \in Range(log_text)
  /\ m[2] = "browse_file" \/ m[1] = Len(threads)

\* C30: every message put on the log queue is eventually appended to the log
\* widget, in the log of the run that produced it, while the worker and the
\* main loop run and the user does nothing more
C30_EveryMessageShown ==
  \A m \in Messages : (m \in Range(log_queue)) ~> ShownInItsRun(m)
====
